---- MODULE Spec2Model ----
(***************************************************************************)
(* Model of the bill ingestion / caching pipeline of src/source/src/app.py *)
(* (two-tier TTL cache of normalized bills, the provider client, the       *)
(* lightweight normalizer, the durable JSON cache file) and of the         *)
(* identifier parsing done by the detail routes.                           *)
(*                                                                         *)
(* Python values are modelled as follows.                                  *)
(*   str          a sequence of pieces of text, one character each where   *)
(*                the code looks into the text                             *)
(*   None / x     an option: << >> is None, << x >> is the value x         *)
(*   JSON scalar  a record [k, s, n]: k is "absent" (key not in the dict), *)
(*                "null", "str" (text in s) or "num" (integer in n)        *)
(*   time.time()  the integer clock now (seconds)                          *)
(***************************************************************************)
EXTENDS Integers, Sequences, FiniteSets, TLC

\* ------------------------------------------------------------------ bounds
\* number of clock advances in one behaviour
MaxTicks == 2
\* number of digits of a bill number in the identifier-parsing inputs
MaxNumLen == 2
\* number of watchlist rows ever inserted (ids given by the autoincrement)
MaxWatchIds == 3
\* length of the 'topics' list of a topic-alert request
MaxTopics == 2
\* length of a batch of raw records given to a normalization loop
MaxRaw == 2
\* number of words of a title given to the topic classifier
MaxWords == 2
\* length of a filtered list given to the pagination of the home page
MaxBills == 101
\* largest page number requested
MaxPageArg == 12

\* ------------------------------------------------------- program constants
CACHE_DURATION == 1800

\* ---------------------------------------------------------- Python values
None == << >>
Some(x) == << x >>

JAbsent == [k |-> "absent", s |-> << >>, n |-> 0]
JNull == [k |-> "null", s |-> << >>, n |-> 0]
JStr(chars) == [k |-> "str", s |-> chars, n |-> 0]
JNum(i) == [k |-> "num", s |-> << >>, n |-> i]

\* dict.get(key, default): the default only replaces a missing key
Get(v, default) == IF v.k = "absent" THEN default ELSE v

\* truth value of a JSON scalar (None, '' and 0 are falsy)
Truthy(v) ==
    CASE v.k = "str" -> v.s # << >>
      [] v.k = "num" -> v.n # 0
      [] OTHER -> FALSE

DigitChar(d) == <<"0", "1", "2", "3", "4", "5", "6", "7", "8", "9">>[d + 1]

RECURSIVE Digits(_)
\* str(i) of a non-negative integer
Digits(i) == IF i < 10 THEN << DigitChar(i) >>
             ELSE Digits(i \div 10) \o << DigitChar(i % 10) >>

\* the text an f-string puts for a value
Format(v) ==
    CASE v.k = "str" -> v.s
      [] v.k = "num" -> Digits(v.n)
      [] OTHER -> <<"N", "o", "n", "e">>

UpperLetters == <<"A", "B", "C", "D", "E", "F", "G", "H", "I", "J", "K", "L", "M",
                  "N", "O", "P", "Q", "R", "S", "T", "U", "V", "W", "X", "Y", "Z">>
LowerLetters == <<"a", "b", "c", "d", "e", "f", "g", "h", "i", "j", "k", "l", "m",
                  "n", "o", "p", "q", "r", "s", "t", "u", "v", "w", "x", "y", "z">>

LowerChar(c) ==
    IF \E i \in 1..26 : UpperLetters[i] = c
    THEN LowerLetters[CHOOSE i \in 1..26 : UpperLetters[i] = c]
    ELSE c

\* str.lower()
Lower(chars) == [i \in 1..Len(chars) |-> LowerChar(chars[i])]

\* value.lower() is defined on str only; on None or int it raises
CanLower(v) == v.k = "str"

\* ------------------------------------------------------- bill normalizer
UnknownPrefix == <<"u", "n", "k", "n", "o", "w", "n", "-">>
\* the two placeholder texts: nothing looks into them, each is one piece
SummaryPlaceholder == <<"Text not available">>
SponsorPlaceholder == <<"Click to view sponsor details">>
DefaultCongress == JStr(<<"1", "1", "8">>)

\* chamber display form: 'house' -> 'House', 'senate' -> 'Senate'
ChamberFormat(chamber) ==
    CASE chamber = <<"h", "o", "u", "s", "e">> -> <<"H", "o", "u", "s", "e">>
      [] chamber = <<"s", "e", "n", "a", "t", "e">> -> <<"S", "e", "n", "a", "t", "e">>
      [] OTHER -> chamber

\* the record raises inside the try block: it is not a dict, or .lower()
\* is applied to an originChamber / type that is not a string
LightweightRaises(congress_bill) ==
    \/ ~congress_bill.isdict
    \/ ~CanLower(Get(congress_bill.originChamber, JStr(<< >>)))
    \/ ~CanLower(Get(congress_bill.type, JStr(<< >>)))

\* a variant of BillIdOf that does not look at the chamber
BillIdIgnoringChamber(bill_type, bill_number, congress_number, chamber) ==
    IF Truthy(bill_number) /\ bill_type # << >>
    THEN bill_type \o Format(bill_number) \o <<"-">> \o Format(congress_number)
    ELSE UnknownPrefix \o Format(congress_number)

\* "if bill_number and bill_type and chamber": the identifier
BillIdOf(bill_type, bill_number, congress_number, chamber) ==
    IF Truthy(bill_number) /\ bill_type # << >> /\ chamber # << >>
    THEN bill_type \o Format(bill_number) \o <<"-">> \o Format(congress_number)
    ELSE UnknownPrefix \o Format(congress_number)

\* process_congress_bill_lightweight: None when the record raises, else the
\* processed bill (a dict, modelled as a record of JSON scalars)
process_congress_bill_lightweight(congress_bill) ==
    IF LightweightRaises(congress_bill) THEN None
    ELSE LET chamber == Lower(Get(congress_bill.originChamber, JStr(<< >>)).s)
             bill_number == Get(congress_bill.number, JStr(<< >>))
             congress_number == Get(congress_bill.congress, DefaultCongress)
             bill_type == Lower(Get(congress_bill.type, JStr(<< >>)).s)
         IN Some([bill_id |-> JStr(BillIdOf(bill_type, bill_number,
                                             congress_number, chamber)),
                  title |-> Get(congress_bill.title, JStr(<< >>)),
                  summary |-> JStr(SummaryPlaceholder),
                  chamber |-> JStr(ChamberFormat(chamber)),
                  sponsor |-> JStr(SponsorPlaceholder),
                  bill_type |-> Get(congress_bill.type, JStr(<< >>)),
                  bill_number |-> Get(congress_bill.number, JStr(<< >>)),
                  congress |-> Get(congress_bill.congress, DefaultCongress)])

\* a variant of LimitStops that stops after the first record
StopsAfterFirst(limit, i) == i >= 1

\* the limit test of the loop: "if limit and i >= limit: break" (limit None
\* is modelled as 0, which Python treats the same way)
LimitStops(limit, i) == limit # 0 /\ i >= limit

RECURSIVE ProcessLoop(_, _, _, _)
\* the normalization loop of get_processed_bills_cached; i is the 0-based
\* index of enumerate
ProcessLoop(api_bills, limit, i, processed_bills) ==
    IF i >= Len(api_bills) \/ LimitStops(limit, i) THEN processed_bills
    ELSE LET processed_bill == process_congress_bill_lightweight(api_bills[i + 1])
         IN ProcessLoop(api_bills, limit, i + 1,
                        IF processed_bill # None
                        THEN Append(processed_bills, processed_bill[1])
                        ELSE processed_bills)

\* -------------------------------------------------- JSON (json.dump / load)
\* The file content is a sequence of tokens [t, v]: punctuation, or a
\* string / number / null token whose text is v.
Tok(t) == [t |-> t, v |-> << >>]
StrTok(chars) == [t |-> "str", v |-> chars]

EncScalar(v) ==
    CASE v.k = "str" -> << StrTok(v.s) >>
      [] v.k = "num" -> << [t |-> "num", v |-> Digits(v.n)] >>
      [] OTHER -> << Tok("null") >>

\* keys of a processed bill, in insertion order
BillKeys == <<"bill_id", "title", "summary", "chamber", "sponsor",
              "bill_type", "bill_number", "congress">>

RECURSIVE EncMembers(_, _, _)
EncMembers(d, keys, i) ==
    IF i > Len(keys) THEN << >>
    ELSE (IF i > 1 THEN << Tok(",") >> ELSE << >>)
         \o << StrTok(<< keys[i] >>), Tok(":") >> \o EncScalar(d[keys[i]])
         \o EncMembers(d, keys, i + 1)

EncBill(d) == << Tok("{") >> \o EncMembers(d, BillKeys, 1) \o << Tok("}") >>

RECURSIVE EncItems(_, _)
EncItems(bills, i) ==
    IF i > Len(bills) THEN << >>
    ELSE (IF i > 1 THEN << Tok(",") >> ELSE << >>)
         \o EncBill(bills[i]) \o EncItems(bills, i + 1)

EncBillList(bills) == << Tok("[") >> \o EncItems(bills, 1) \o << Tok("]") >>

\* json.dump({'timestamp': ts, 'bills': bills})
JsonDump(ts, bills) ==
    << Tok("{"), StrTok(<<"timestamp">>), Tok(":") >> \o EncScalar(JNum(ts))
    \o << Tok(","), StrTok(<<"bills">>), Tok(":") >> \o EncBillList(bills)
    \o << Tok("}") >>

DigitVal(c) == CHOOSE d \in 0..9 : DigitChar(d) = c

RECURSIVE ToInt(_, _)
\* int of the first i digits of chars
ToInt(chars, i) == IF i = 0 THEN 0
                   ELSE 10 * ToInt(chars, i - 1) + DigitVal(chars[i])

Fail == [ok |-> FALSE, val |-> << >>, next |-> 0]
IsTok(toks, i, t) == i >= 1 /\ i <= Len(toks) /\ toks[i].t = t

ParseScalar(toks, i) ==
    CASE IsTok(toks, i, "str") -> [ok |-> TRUE, val |-> JStr(toks[i].v), next |-> i + 1]
      [] IsTok(toks, i, "num") ->
            [ok |-> TRUE, val |-> JNum(ToInt(toks[i].v, Len(toks[i].v))), next |-> i + 1]
      [] IsTok(toks, i, "null") -> [ok |-> TRUE, val |-> JNull, next |-> i + 1]
      [] OTHER -> Fail

RECURSIVE ParseMembers(_, _, _)
\* members of an object of scalars, from the first key to the closing brace
ParseMembers(toks, i, acc) ==
    IF ~(IsTok(toks, i, "str") /\ IsTok(toks, i + 1, ":")) THEN Fail
    ELSE LET v == ParseScalar(toks, i + 2)
             d == (toks[i].v[1] :> v.val) @@ acc
         IN CASE ~v.ok -> Fail
              [] IsTok(toks, v.next, ",") -> ParseMembers(toks, v.next + 1, d)
              [] IsTok(toks, v.next, "}") -> [ok |-> TRUE, val |-> d, next |-> v.next + 1]
              [] OTHER -> Fail

ParseObject(toks, i) ==
    CASE ~IsTok(toks, i, "{") -> Fail
      [] IsTok(toks, i + 1, "}") -> [ok |-> TRUE, val |-> << >>, next |-> i + 2]
      [] OTHER -> ParseMembers(toks, i + 1, << >>)

RECURSIVE ParseItems(_, _, _)
\* items of an array of objects, from the first item to the closing bracket
ParseItems(toks, i, acc) ==
    LET o == ParseObject(toks, i)
    IN CASE ~o.ok -> Fail
         [] IsTok(toks, o.next, ",") -> ParseItems(toks, o.next + 1, Append(acc, o.val))
         [] IsTok(toks, o.next, "]") ->
               [ok |-> TRUE, val |-> Append(acc, o.val), next |-> o.next + 1]
         [] OTHER -> Fail

ParseBillList(toks, i) ==
    CASE ~IsTok(toks, i, "[") -> Fail
      [] IsTok(toks, i + 1, "]") -> [ok |-> TRUE, val |-> << >>, next |-> i + 2]
      [] OTHER -> ParseItems(toks, i + 1, << >>)

\* json.load of the cache file: ok is FALSE when the text does not parse
\* (json.load raises), else timestamp and bills are the two members
JsonLoad(toks) ==
    IF ~(/\ IsTok(toks, 1, "{")
         /\ IsTok(toks, 2, "str") /\ toks[2].v = <<"timestamp">>
         /\ IsTok(toks, 3, ":") /\ IsTok(toks, 4, "num")
         /\ IsTok(toks, 5, ",")
         /\ IsTok(toks, 6, "str") /\ toks[6].v = <<"bills">>
         /\ IsTok(toks, 7, ":"))
    THEN [ok |-> FALSE, timestamp |-> 0, bills |-> << >>]
    ELSE LET l == ParseBillList(toks, 8)
         IN IF l.ok /\ IsTok(toks, l.next, "}") /\ l.next = Len(toks)
            THEN [ok |-> TRUE, timestamp |-> ParseScalar(toks, 4).val.n,
                  bills |-> l.val]
            ELSE [ok |-> FALSE, timestamp |-> 0, bills |-> << >>]

\* ------------------------------------------------------- provider records
\* raw records the provider can send (the fields the normalizer reads)
RawHR1 == [isdict |-> TRUE, title |-> JStr(<<"T", "a", "x", " ", "A", "c", "t">>), number |-> JStr(<<"1">>),
           congress |-> JNum(118), type |-> JStr(<<"H", "R">>),
           originChamber |-> JStr(<<"H", "o", "u", "s", "e">>)]
RawS2 == [isdict |-> TRUE, title |-> JStr(<<"A", " ", "b", "i", "l", "l">>), number |-> JStr(<<"2">>),
          congress |-> JAbsent, type |-> JStr(<<"S">>),
          originChamber |-> JStr(<<"S", "e", "n", "a", "t", "e">>)]
\* a malformed record: originChamber is null, so .lower() raises
RawBad == [isdict |-> TRUE, title |-> JNull, number |-> JStr(<<"3">>),
           congress |-> JNum(118), type |-> JStr(<<"S">>),
           originChamber |-> JNull]

\* outcome of one requests.get: "raise" is a network error, "500" any
\* status other than 200
Failures == { [status |-> "raise", bills |-> << >>],
              [status |-> "500", bills |-> << >>] }
\* outcomes of the first request (the House request of a 'both' fetch)
FirstResponses ==
    Failures \cup { [status |-> "200", bills |-> l] : l \in { << RawHR1 >>, << RawBad >> } }
\* outcomes of the second request (the Senate request of a 'both' fetch)
SecondResponses ==
    Failures \cup { [status |-> "200", bills |-> l] : l \in { << RawS2 >> } }

Chambers == {"both", "house"}
\* limit None is modelled as 0
Limits == {0, 1}
\* outcome of the write in save_cache_to_file: done, open() raised, or the
\* write raised after open() had truncated the file
WriteOutcomes == {"ok", "open_failed", "partial"}
\* seconds by which the clock advances between two calls
TickSteps == {1799, 1801}

\* ------------------------------------------------------------------ state
VARIABLES
    now,                        \* time.time()
    ticks,                      \* number of clock advances so far
    api_bills_cache,            \* option of a list of raw records
    api_bills_cache_time,       \* option of a time
    processed_bills_cache,      \* option of a list of processed bills
    processed_bills_cache_time, \* option of a time
    cache_file,                 \* CACHE_FILE: None (no file) or its tokens
    processed_fetched_at,       \* history: when the processed list was fetched
    file_fetched_at,            \* history: when the file's list was fetched
    partial_stored,             \* history: raw bills of the partial fetch in memory,
                                \* None once that entry is older than the TTL
    last,                       \* history: the last call and its outcome
    bill_id,                    \* identifier given to a detail route
    parsed,                     \* what the route derived from it
    raw_bills,                  \* a list of raw records given to a loop
    normalized,                 \* what the normalization loop made of it
    bill,                       \* the dict given to categorize_bill
    topics,                     \* option of the list it returned
    votes,                      \* table vote: rows in insertion order
    watchlist,                  \* table watchlist_item: rows in insertion order
    watchlist_next_id,          \* its autoincrement counter
    alerts,                     \* table topic_alert: rows in insertion order
    req,                        \* per worker: the request it is handling
    fetched,                    \* history: the last fetch_bills_from_api call
    calls,                      \* per worker: its get_processed_bills_cached call
    home,                       \* history: the last request for the home page
    paged                       \* a filtered list and the page made of it

cacheVars == << now, ticks, api_bills_cache, api_bills_cache_time,
                processed_bills_cache, processed_bills_cache_time, cache_file,
                processed_fetched_at, file_fetched_at, partial_stored, last >>
parseVars == << bill_id, parsed >>
normVars == << raw_bills, normalized >>
topicVars == << bill, topics >>
dbVars == << votes, watchlist, watchlist_next_id, alerts, req >>
moreVars == << fetched, calls, home, paged >>
restVars == << normVars, topicVars, dbVars, moreVars >>
vars == << cacheVars, parseVars, restVars >>

\* ------------------------------------------------------------ cache tests
\* a variant of ListTruthy that tests "is not None" only
ListNotNone(cache) == cache # None

\* "if cache and cache_time": None, [] and 0 are falsy
ListTruthy(cache) == cache # None /\ cache[1] # << >>

TimeTruthy(cache_time) == cache_time # None /\ cache_time[1] # 0

\* a variant of Fresh with the subtraction the wrong way round
FreshReversed(t, time) == t - time < CACHE_DURATION

\* "time.time() - t < CACHE_DURATION"
Fresh(t, time) == time - t < CACHE_DURATION

\* a variant of EntryValid without the age test
EntryValidNoTTL(cache, cache_time, time) ==
    cache # None /\ cache[1] # << >> /\ cache_time # None /\ cache_time[1] # 0

\* the test of an in-memory entry (processed or raw): present and fresh
EntryValid(cache, cache_time, time) ==
    ListTruthy(cache) /\ TimeTruthy(cache_time) /\ Fresh(cache_time[1], time)

\* a variant of LoadedBills that returns None for an empty list
LoadedBillsOrNone(cache_data) ==
    IF cache_data.bills = << >> THEN None ELSE Some(cache_data.bills)

\* what load_cache_from_file returns for a fresh file that parsed
LoadedBills(cache_data) == Some(cache_data.bills)

\* a variant of RemoveCorrupted that leaves the file in place
KeepCorrupted(file) == file

\* the file after the except branch of load_cache_from_file: os.remove
RemoveCorrupted(file) == None

\* load_cache_from_file at the given time: ret is the returned option,
\* file the file afterwards, corrupt whether the except branch ran,
\* timestamp the file's timestamp when it parsed
load_cache_from_file(file, time) ==
    IF file = None
    THEN [ret |-> None, file |-> file, corrupt |-> FALSE, timestamp |-> 0]
    ELSE LET cache_data == JsonLoad(file[1])
         IN CASE ~cache_data.ok ->
                    [ret |-> None, file |-> RemoveCorrupted(file),
                     corrupt |-> TRUE, timestamp |-> 0]
              [] cache_data.ok /\ Fresh(cache_data.timestamp, time) ->
                    [ret |-> LoadedBills(cache_data), file |-> file,
                     corrupt |-> FALSE, timestamp |-> cache_data.timestamp]
              [] OTHER -> [ret |-> None, file |-> file, corrupt |-> FALSE,
                           timestamp |-> cache_data.timestamp]

\* what a write that raises midway leaves in the file: the text up to the
\* point of failure
PartialWrite(toks) == SubSeq(toks, 1, 3)

\* a variant of save_cache_to_file that leaves out the last bill
SaveAllButLast(bills, file, time, w) ==
    Some(JsonDump(time, SubSeq(bills, 1, Len(bills) - 1)))

\* save_cache_to_file at the given time: the file afterwards
save_cache_to_file(bills, file, time, w) ==
    CASE w = "ok" -> Some(JsonDump(time, bills))
      [] w = "partial" -> Some(PartialWrite(JsonDump(time, bills)))
      [] OTHER -> file

\* "if response.status_code == 200: bills.extend(...)"
BillsOf(response) == IF response.status = "200" THEN response.bills ELSE << >>

\* a variant of StoreBoth that stores the list only when both requests
\* returned 200
StoreBothWhenAllOk(r1, r2) == r1.status = "200" /\ r2.status = "200"

\* "api_bills_cache = bills; api_bills_cache_time = time.time()" after the
\* two requests of a 'both' fetch: whatever their status codes
StoreBoth(r1, r2) == TRUE

\* fetch_bills_from_api at the given time: ret is the returned list, at the
\* time it was fetched, cache / cache_time the raw cache afterwards,
\* requests the outbound requests made, failed whether a request was made
\* and none returned 200
fetch_bills_from_api(chamber, r1, r2, cache, cache_time, time) ==
    LET out(ret, stored, n, failed) ==
            [ret |-> ret, at |-> time,
             cache |-> IF stored THEN Some(ret) ELSE cache,
             cache_time |-> IF stored THEN Some(time) ELSE cache_time,
             requests |-> n, failed |-> failed]
    IN CASE EntryValid(cache, cache_time, time) ->
                [ret |-> cache[1], at |-> cache_time[1], cache |-> cache,
                 cache_time |-> cache_time, requests |-> 0, failed |-> FALSE]
         [] OTHER ->
            IF chamber = "both"
            THEN CASE r1.status = "raise" -> out(<< >>, FALSE, 1, TRUE)
                   [] r1.status # "raise" /\ r2.status = "raise" ->
                         out(<< >>, FALSE, 2, TRUE)
                   [] OTHER -> out(BillsOf(r1) \o BillsOf(r2), StoreBoth(r1, r2), 2,
                                   r1.status # "200" /\ r2.status # "200")
            ELSE CASE r1.status = "200" -> out(r1.bills, TRUE, 1, FALSE)
                   [] OTHER -> out(<< >>, FALSE, 1, TRUE)

\* the responses to the first request: one (unused) when the raw cache is
\* valid and no request is made
FirstOutcomes ==
    IF EntryValid(api_bills_cache, api_bills_cache_time, now)
    THEN {CHOOSE r \in Failures : TRUE} ELSE FirstResponses

\* the responses to the second request: one (unused) when it is not made
\* (raw cache valid, one chamber asked, or the first request raised)
SecondOutcomes(chamber, r1) ==
    IF \/ EntryValid(api_bills_cache, api_bills_cache_time, now)
       \/ chamber # "both"
       \/ r1.status = "raise"
    THEN {CHOOSE r \in Failures : TRUE} ELSE SecondResponses

\* exactly one of the two requests of a 'both' fetch returned non-200 and
\* the other returned 200
PartialFailure(r1, r2) ==
    \/ r1.status = "200" /\ r2.status = "500"
    \/ r1.status = "500" /\ r2.status = "200"

\* the bills of the successful request of a fetch f that made both
\* requests with a partial failure, None for any other fetch
PartialBills(f, r1, r2) ==
    IF f.requests = 2 /\ PartialFailure(r1, r2)
    THEN Some(IF r1.status = "200" THEN r1.bills ELSE r2.bills)
    ELSE None

\* a variant of CacheResult that caches whatever the limit
CacheResultAlways(limit) == TRUE

\* "if not limit": only a full dataset is cached
CacheResult(limit) == limit = 0

\* the timestamp given to a list promoted from the file
PromotedTime(file_timestamp, time) == time

\* a variant of StoredTime that leaves the timestamp unset
StoredTimeUnset(time) == 0

\* the timestamp given to the list stored by a full miss
StoredTime(time) == time

\* ------------------------------------------------------------------- Init
\* the record of the step just taken (op is "get", "api_fetch", "reset" for
\* a restart, "clear", "tick"); stale is whether the returned data was
\* fetched more than CACHE_DURATION before the call
NoCall == [op |-> "none", limit |-> 0, source |-> "-", ret |-> << >>,
           stale |-> FALSE, requests |-> 0, failed |-> FALSE,
           corrupt |-> FALSE, write |-> "none", partial |-> None]

CacheInit ==
    /\ now = 1
    /\ ticks = 0
    /\ api_bills_cache = None
    /\ api_bills_cache_time = None
    /\ processed_bills_cache = None
    /\ processed_bills_cache_time = None
    /\ cache_file = None
    /\ processed_fetched_at = 0
    /\ file_fetched_at = 0
    /\ partial_stored = None
    /\ last = NoCall

\* no detail route has been called
ParseIdle == bill_id = << >> /\ parsed = [by |-> "none", ok |-> FALSE,
                                          bill_type |-> << >>,
                                          bill_number |-> << >>]

\* no list has been given to a normalization loop
NoNormalized == [by |-> "none", limit |-> 0, out |-> << >>]
NormIdle == raw_bills = << >> /\ normalized = NoNormalized

\* categorize_bill has not been called
TopicIdle == bill = [title |-> JAbsent, summary |-> JAbsent] /\ topics = None

\* the request threads of the server
Workers == {1, 2}

\* a worker that handles no request: op is the route, pc "idle", "checked"
\* (the existence query is done, the write is not) or "done"; found is the
\* id of the row the existence query returned (0: none); status and body
\* are the response
NoRequest == [op |-> "none", pc |-> "idle", user |-> 0, bill_id |-> "",
              arg |-> << >>, found |-> 0, status |-> 0, body |-> "none"]

\* the tables after db.create_all(), no request in progress
DbInit ==
    /\ votes = << >>
    /\ watchlist = << >>
    /\ watchlist_next_id = 1
    /\ alerts = << >>
    /\ req = [w \in Workers |-> NoRequest]

\* fetch_bills_from_api has not been called on its own
NoFetch == [chamber |-> "none", valid |-> FALSE, sent |-> << >>,
            responses |-> << >>, ret |-> << >>]

\* a worker that is not inside get_processed_bills_cached: pc is the
\* statement it is at, api_bills / processed_bills / ts its locals (ts the
\* timestamp of cache_data), linked whether the file it has open is still
\* the one CACHE_FILE names, source / requests / ret the outcome
NoCallYet == [pc |-> "idle", api_bills |-> << >>, processed_bills |-> << >>,
              ts |-> 0, linked |-> FALSE, source |-> "-", requests |-> 0,
              ret |-> None]

\* the home page has not been requested: memory_valid is whether the
\* in-memory processed entry was valid when the request came, list_requests
\* the number of requests it made to the bill-list endpoint, bills the
\* bills of the page with the vote counts added to them
NoHome == [called |-> FALSE, memory_valid |-> FALSE, list_requests |-> 0,
           per_page |-> 0, total_pages |-> 0, page |-> 0, bills |-> << >>]

\* no list has been paginated
NoPage == [per_page |-> 0, total_pages |-> 0, page |-> 0,
           bills_for_page |-> << >>]
PageIdle == paged = [filtered_bills |-> << >>, page |-> 0, per_page |-> 0,
                     out |-> NoPage]

MoreIdle ==
    /\ fetched = NoFetch /\ calls = [w \in Workers |-> NoCallYet]
    /\ home = NoHome /\ PageIdle

RestIdle == NormIdle /\ TopicIdle /\ DbInit /\ MoreIdle

Init == CacheInit /\ ParseIdle /\ RestIdle

\* ---------------------------------------------------------------- actions
\* the clock advances between calls
Tick(d) ==
    /\ ticks < MaxTicks
    /\ now' = now + d
    /\ ticks' = ticks + 1
    /\ last' = [NoCall EXCEPT !.op = "tick"]
    /\ UNCHANGED << api_bills_cache, api_bills_cache_time, processed_bills_cache,
                    processed_bills_cache_time, cache_file,
                    processed_fetched_at, file_fetched_at,
                    parseVars, restVars >>
    /\ partial_stored' = IF partial_stored # None
                             /\ ~Fresh(processed_bills_cache_time[1], now + d)
                          THEN None ELSE partial_stored

\* the four module-level variables are None
MemoryCleared ==
    /\ api_bills_cache' = None
    /\ api_bills_cache_time' = None
    /\ processed_bills_cache' = None
    /\ processed_bills_cache_time' = None
    /\ processed_fetched_at' = 0
    /\ partial_stored' = None

\* the process restarts: the module-level variables are None again, the
\* file stays
Restart ==
    /\ MemoryCleared
    /\ last' = [NoCall EXCEPT !.op = "reset"]
    /\ UNCHANGED << now, ticks, cache_file, file_fetched_at, parseVars, restVars >>

\* a variant of clear_bills_cache that removes the file as well
clear_bills_cache_and_file ==
    /\ MemoryCleared
    /\ cache_file' = None
    /\ file_fetched_at' = 0
    /\ last' = [NoCall EXCEPT !.op = "clear"]
    /\ UNCHANGED << now, ticks, parseVars, restVars >>

\* clear_bills_cache(): the four globals are None, nothing else is touched
clear_bills_cache ==
    /\ MemoryCleared
    /\ last' = [NoCall EXCEPT !.op = "clear"]
    /\ UNCHANGED << now, ticks, cache_file, file_fetched_at, parseVars, restVars >>

\* the full-miss part of get_processed_bills_cached: loaded is the outcome
\* of load_cache_from_file, call the record of the call so far
FullMiss(chamber, limit, loaded, call) ==
    \E r1 \in FirstOutcomes : \E r2 \in SecondOutcomes(chamber, r1) :
    \E f \in {fetch_bills_from_api(chamber, r1, r2, api_bills_cache,
                                    api_bills_cache_time, now)} :
    \E processed_bills \in {ProcessLoop(f.ret, limit, 0, << >>)} :
    \E w \in IF f.ret # << >> /\ CacheResult(limit) THEN WriteOutcomes ELSE {"none"} :
       /\ api_bills_cache' = f.cache
       /\ api_bills_cache_time' = f.cache_time
       /\ IF f.ret # << >> /\ CacheResult(limit)
          THEN /\ processed_bills_cache' = Some(processed_bills)
               /\ processed_bills_cache_time' = Some(StoredTime(now))
               /\ processed_fetched_at' = f.at
               /\ partial_stored' = PartialBills(f, r1, r2)
               /\ cache_file' = save_cache_to_file(processed_bills, loaded.file,
                                                   now, w)
               /\ file_fetched_at' = CASE w = "ok" -> f.at
                                       [] w = "partial" -> 0
                                       [] OTHER -> IF loaded.corrupt THEN 0
                                                   ELSE file_fetched_at
          ELSE /\ cache_file' = loaded.file
               /\ file_fetched_at' = IF loaded.corrupt THEN 0 ELSE file_fetched_at
               /\ UNCHANGED << processed_bills_cache, processed_bills_cache_time,
                               processed_fetched_at, partial_stored >>
       /\ last' = [call EXCEPT
                     !.source = "miss",
                     !.ret = IF f.ret # << >> THEN processed_bills ELSE << >>,
                     !.stale = (f.ret # << >> /\ now - f.at > CACHE_DURATION),
                     !.requests = f.requests,
                     !.failed = f.failed,
                     !.corrupt = loaded.corrupt,
                     !.write = w,
                     !.partial = PartialBills(f, r1, r2)]

\* the body of get_processed_bills_cached(chamber, congress, limit): what
\* it does to the caches, and the record of the call
GetProcessedBills(chamber, limit) ==
    LET call == [NoCall EXCEPT !.op = "get", !.limit = limit]
    IN
    /\ UNCHANGED << now, ticks >>
    /\ IF EntryValid(processed_bills_cache, processed_bills_cache_time, now)
       THEN \* served from memory
            /\ last' = [call EXCEPT
                          !.source = "memory",
                          !.ret = processed_bills_cache[1],
                          !.stale = now - processed_fetched_at > CACHE_DURATION]
            /\ UNCHANGED << api_bills_cache, api_bills_cache_time,
                            processed_bills_cache, processed_bills_cache_time,
                            cache_file, processed_fetched_at, file_fetched_at,
                            partial_stored >>
       ELSE \E loaded \in {load_cache_from_file(cache_file, now)} :
            IF ListTruthy(loaded.ret)
            THEN \* promoted from the file
                 /\ processed_bills_cache' = loaded.ret
                 /\ processed_bills_cache_time' =
                        Some(PromotedTime(loaded.timestamp, now))
                 /\ processed_fetched_at' = file_fetched_at
                 /\ partial_stored' = None
                 /\ last' = [call EXCEPT
                               !.source = "file",
                               !.ret = loaded.ret[1],
                               !.stale = now - file_fetched_at > CACHE_DURATION]
                 /\ UNCHANGED << api_bills_cache, api_bills_cache_time, cache_file,
                                 file_fetched_at >>
            ELSE FullMiss(chamber, limit, loaded, call)

\* get_processed_bills_cached(chamber, congress, limit), called on its own
get_processed_bills_cached(chamber, limit) ==
    /\ GetProcessedBills(chamber, limit)
    /\ UNCHANGED << parseVars, restVars >>

\* api_fetch_bills: the route /api/bills/fetch calls fetch_bills_from_api
\* with the chamber of the request (its response body is built from the
\* returned list and changes no state)
api_fetch_bills(chamber) ==
    \E r1 \in FirstOutcomes : \E r2 \in SecondOutcomes(chamber, r1) :
    \E f \in {fetch_bills_from_api(chamber, r1, r2, api_bills_cache,
                                    api_bills_cache_time, now)} :
       /\ api_bills_cache' = f.cache
       /\ api_bills_cache_time' = f.cache_time
       /\ last' = [NoCall EXCEPT !.op = "api_fetch"]
       /\ UNCHANGED << now, ticks, processed_bills_cache,
                       processed_bills_cache_time, cache_file,
                       processed_fetched_at, file_fetched_at, partial_stored,
                    parseVars, restVars >>

Next ==
    \/ \E d \in TickSteps : Tick(d)
    \/ Restart
    \/ clear_bills_cache
    \/ \E limit \in Limits : get_processed_bills_cached("both", limit)
    \/ \E chamber \in Chambers : api_fetch_bills(chamber)

Spec == Init /\ [][Next]_vars

\* ------------------------------------------- identifier parsing (routes)
\* str.startswith
StartsWith(chars, prefix) ==
    Len(chars) >= Len(prefix) /\ SubSeq(chars, 1, Len(prefix)) = prefix

\* chars[n:]
From(chars, n) == SubSeq(chars, n + 1, Len(chars))

RECURSIVE Split(_, _, _)
\* str.split('-'): cur is the part being read from position i on
Split(chars, i, cur) ==
    CASE i > Len(chars) -> << cur >>
      [] i <= Len(chars) /\ chars[i] = "-" -> << cur >> \o Split(chars, i + 1, << >>)
      [] OTHER -> Split(chars, i + 1, Append(cur, chars[i]))

\* the if / elif chain of bill_detail, in the order of the code
DetailPrefixes == << <<"h", "r">>, <<"s">>, <<"h", "j", "r", "e", "s">>, <<"s", "j", "r", "e", "s">>, <<"h", "c", "o", "n", "r", "e", "s">>,
                     <<"s", "c", "o", "n", "r", "e", "s">>, <<"h", "r", "e", "s">>, <<"s", "r", "e", "s">> >>

\* the if / elif chain of get_detailed_bills_for_page
PagePrefixes == << <<"h", "r">>, <<"s">> >>

RECURSIVE FirstMatch(_, _, _)
\* index of the first branch of the chain whose startswith test holds, 0
\* when none does
FirstMatch(bill_identifier, prefixes, i) ==
    CASE i > Len(prefixes) -> 0
      [] i <= Len(prefixes) /\ StartsWith(bill_identifier, prefixes[i]) -> i
      [] OTHER -> FirstMatch(bill_identifier, prefixes, i + 1)

\* bill_type and bill_number derived by bill_detail (and, with the same
\* code, by get_bill_summary); the else branch gives the whole identifier
\* and number '1'
DetailTypeNumber(id) ==
    LET parts == Split(id, 1, << >>)
        bill_identifier == parts[1]
        m == FirstMatch(bill_identifier, DetailPrefixes, 1)
    IN CASE Len(parts) < 2 -> [ok |-> FALSE, bill_type |-> << >>, bill_number |-> << >>]
         [] Len(parts) >= 2 /\ m = 0 ->
               [ok |-> TRUE, bill_type |-> bill_identifier, bill_number |-> <<"1">>]
         [] OTHER -> [ok |-> TRUE, bill_type |-> DetailPrefixes[m],
                      bill_number |-> From(bill_identifier, Len(DetailPrefixes[m]))]

\* bill_type and bill_number derived by get_detailed_bills_for_page; with
\* no matching branch the bill is kept as it is and no request is made
PageTypeNumber(id) ==
    LET parts == Split(id, 1, << >>)
        bill_identifier == parts[1]
        m == FirstMatch(bill_identifier, PagePrefixes, 1)
    IN IF id = << >> \/ Len(parts) < 2 \/ m = 0
       THEN [ok |-> FALSE, bill_type |-> << >>, bill_number |-> << >>]
       ELSE [ok |-> TRUE, bill_type |-> PagePrefixes[m],
             bill_number |-> From(bill_identifier, Len(PagePrefixes[m]))]

\* the legislative instrument types, as the provider writes them
BillTypes == { <<"H", "R">>, <<"S">>, <<"H", "J", "R", "E", "S">>, <<"S", "J", "R", "E", "S">>, <<"H", "C", "O", "N", "R", "E", "S">>, <<"S", "C", "O", "N", "R", "E", "S">>,
               <<"H", "R", "E", "S">>, <<"S", "R", "E", "S">> }

RECURSIVE NumbersOfLen(_)
\* the bill numbers of n digits that the routes are tried on
NumbersOfLen(n) ==
    IF n = 0 THEN { << >> }
    ELSE { Append(p, d) : p \in NumbersOfLen(n - 1), d \in {"1", "7"} }

BillNumbers == UNION { NumbersOfLen(n) : n \in 1..MaxNumLen }

\* the identifiers the normalizer gives to House and Senate records of
\* every type
BillIdInputs ==
    { BillIdOf(Lower(t), JStr(n), JNum(118), <<"h", "o", "u", "s", "e">>) :
        t \in BillTypes, n \in BillNumbers }

ParseInit ==
    /\ CacheInit
    /\ RestIdle
    /\ bill_id \in BillIdInputs
    /\ parsed = [by |-> "none", ok |-> FALSE, bill_type |-> << >>,
                 bill_number |-> << >>]

Derived(by, r) == [by |-> by, ok |-> r.ok, bill_type |-> r.bill_type,
                   bill_number |-> r.bill_number]

bill_detail ==
    /\ parsed' = Derived("bill_detail", DetailTypeNumber(bill_id))
    /\ UNCHANGED << bill_id, cacheVars, restVars >>

get_bill_summary ==
    /\ parsed' = Derived("get_bill_summary", DetailTypeNumber(bill_id))
    /\ UNCHANGED << bill_id, cacheVars, restVars >>

get_detailed_bills_for_page ==
    /\ parsed' = Derived("get_detailed_bills_for_page", PageTypeNumber(bill_id))
    /\ UNCHANGED << bill_id, cacheVars, restVars >>

ParseNext == bill_detail \/ get_bill_summary \/ get_detailed_bills_for_page

SpecParse == ParseInit /\ [][ParseNext]_vars

\* ------------------------------------------------------- votes (database)
\* current_user.id of the logged-in users
Users == {1, 2}
\* the bill of the route /api/bills/<bill_id>/vote
VotedBills == {"hr1-118"}
\* the request body: None when 'vote_type' is missing, else its value
VoteData == {None, Some("up"), Some("down"), Some("sideways")}

\* the rows of a (bill_id, user_id) pair, in insertion order
RowsOfPair(table, bid, uid) ==
    SelectSeq(table, LAMBDA row : row.bill_id = bid /\ row.user_id = uid)

\* the least of a non-empty set of row ids
FirstId(ids) == CHOOSE i \in ids : \A j \in ids : i <= j

\* a variant of ExistingVote that finds nothing
ExistingVoteNone(table, bid, uid) == 0

\* Vote.query.filter_by(bill_id=..., user_id=...).first(): the id (position)
\* of the row found, 0 when there is none
ExistingVote(table, bid, uid) ==
    LET ids == { i \in 1..Len(table) : /\ table[i].bill_id = bid
                                        /\ table[i].user_id = uid }
    IN IF ids = {} THEN 0 ELSE FirstId(ids)

\* a variant of UniqueVotePerUser that accepts every row
NoVoteConstraint(table, bid, uid) == TRUE

\* UniqueConstraint('bill_id', 'user_id'): the insert is accepted
UniqueVotePerUser(table, bid, uid) ==
    \A i \in 1..Len(table) :
        ~(table[i].bill_id = bid /\ table[i].user_id = uid)

\* the worker has answered
Answered(op, status, body) ==
    [NoRequest EXCEPT !.op = op, !.pc = "done", !.status = status,
                      !.body = body]

\* api_vote_bill up to the existence query: the 400 answers, or the query
api_vote_bill(w, bid, user, data) ==
    /\ req[w].pc # "checked"
    /\ IF data = None \/ data[1] \notin {"up", "down"}
       THEN req' = [req EXCEPT ![w] = Answered("vote", 400, "error")]
       ELSE req' = [req EXCEPT ![w] =
                      [op |-> "vote", pc |-> "checked", user |-> user,
                       bill_id |-> bid, arg |-> data[1],
                       found |-> ExistingVote(votes, bid, user),
                       status |-> 0, body |-> "none"]]
    /\ UNCHANGED << votes, watchlist, watchlist_next_id, alerts, cacheVars,
                    parseVars, normVars, topicVars, moreVars >>

\* api_vote_bill from the update or insert to the answer: db.session.commit
\* writes the row; an insert refused by the constraint raises, the session
\* is rolled back and the answer is 500
api_vote_bill_commit(w) ==
    /\ req[w].pc = "checked" /\ req[w].op = "vote"
    /\ LET r == req[w]
       IN IF r.found # 0
          THEN /\ votes' = [votes EXCEPT ![r.found].vote_type = r.arg]
               /\ req' = [req EXCEPT ![w] = Answered("vote", 200, "success")]
          ELSE IF UniqueVotePerUser(votes, r.bill_id, r.user)
               THEN /\ votes' = Append(votes, [bill_id |-> r.bill_id,
                                               user_id |-> r.user,
                                               vote_type |-> r.arg])
                    /\ req' = [req EXCEPT ![w] = Answered("vote", 200, "success")]
               ELSE /\ votes' = votes
                    /\ req' = [req EXCEPT ![w] = Answered("vote", 500, "error")]
    /\ UNCHANGED << watchlist, watchlist_next_id, alerts, cacheVars, parseVars,
                    normVars, topicVars, moreVars >>

\* no request is between its existence query and its commit
NoneInProgress == \A w \in Workers : req[w].pc # "checked"

\* requests handled by concurrent workers
VotesNext ==
    \E w \in Workers :
        \/ \E b \in VotedBills, u \in Users, d \in VoteData : api_vote_bill(w, b, u, d)
        \/ api_vote_bill_commit(w)

SpecVotes == Init /\ [][VotesNext]_vars

\* requests handled one after another
VotesSeqNext ==
    \E w \in Workers :
        \/ /\ NoneInProgress
           /\ \E b \in VotedBills, u \in Users, d \in VoteData : api_vote_bill(w, b, u, d)
        \/ api_vote_bill_commit(w)

SpecVotesSeq == Init /\ [][VotesSeqNext]_vars

\* --------------------------------------------------- watchlist (database)
\* the bills users put on their watchlists
WatchedBills == {"hr1-118"}
\* the request body of an add: None when 'bill_id' or 'bill_title' is
\* missing, else the bill_id
WatchData == {None} \cup { Some(b) : b \in WatchedBills }

\* a variant of ExistingItem that finds nothing
ExistingItemNone(table, uid, bid) == 0

\* WatchlistItem.query.filter_by(user_id=..., bill_id=...).first(): the id of
\* the row found, 0 when there is none
ExistingItem(table, uid, bid) ==
    LET ids == { table[i].id : i \in { j \in 1..Len(table) :
                                         /\ table[j].user_id = uid
                                         /\ table[j].bill_id = bid } }
    IN IF ids = {} THEN 0 ELSE FirstId(ids)

\* UniqueConstraint('user_id', 'bill_id'): the insert is accepted
UniqueWatchlistPerUser(table, uid, bid) ==
    \A i \in 1..Len(table) :
        ~(table[i].user_id = uid /\ table[i].bill_id = bid)

\* the worker has answered a watchlist request; the answer keeps the pair
\* the request was about
AnsweredFor(r, status, body) ==
    [r EXCEPT !.pc = "done", !.found = 0, !.status = status, !.body = body]

\* api_add_to_watchlist up to the existence query: the 400 answers (fields
\* missing, already in watchlist), or the query finding nothing
api_add_to_watchlist(w, user, data) ==
    /\ req[w].pc # "checked"
    /\ LET r == [NoRequest EXCEPT !.op = "add", !.user = user,
                                  !.bill_id = IF data = None THEN "" ELSE data[1]]
       IN IF data = None \/ ExistingItem(watchlist, user, r.bill_id) # 0
          THEN req' = [req EXCEPT ![w] = AnsweredFor(r, 400, "error")]
          ELSE req' = [req EXCEPT ![w] = [r EXCEPT !.pc = "checked"]]
    /\ UNCHANGED << votes, watchlist, watchlist_next_id, alerts, cacheVars,
                    parseVars, normVars, topicVars, moreVars >>

\* api_add_to_watchlist from db.session.add to the answer: an insert refused
\* by the constraint raises, the session is rolled back, the answer is 500
api_add_to_watchlist_commit(w) ==
    /\ req[w].pc = "checked" /\ req[w].op = "add"
    /\ watchlist_next_id <= MaxWatchIds
    /\ LET r == req[w]
       IN IF UniqueWatchlistPerUser(watchlist, r.user, r.bill_id)
          THEN /\ watchlist' = Append(watchlist, [id |-> watchlist_next_id,
                                                   user_id |-> r.user,
                                                   bill_id |-> r.bill_id])
               /\ watchlist_next_id' = watchlist_next_id + 1
               /\ req' = [req EXCEPT ![w] = AnsweredFor(r, 200, "success")]
          ELSE /\ UNCHANGED << watchlist, watchlist_next_id >>
               /\ req' = [req EXCEPT ![w] = AnsweredFor(r, 500, "error")]
    /\ UNCHANGED << votes, alerts, cacheVars, parseVars, normVars, topicVars, moreVars >>

\* api_remove_from_watchlist up to the query: 404, or the row found
api_remove_from_watchlist(w, user, bid) ==
    /\ req[w].pc # "checked"
    /\ LET r == [NoRequest EXCEPT !.op = "remove", !.user = user, !.bill_id = bid]
           watchlist_item == ExistingItem(watchlist, user, bid)
       IN IF watchlist_item = 0
          THEN req' = [req EXCEPT ![w] = AnsweredFor(r, 404, "error")]
          ELSE req' = [req EXCEPT ![w] = [r EXCEPT !.pc = "checked",
                                                   !.found = watchlist_item]]
    /\ UNCHANGED << votes, watchlist, watchlist_next_id, alerts, cacheVars,
                    parseVars, normVars, topicVars, moreVars >>

\* api_remove_from_watchlist from db.session.delete to the answer: the row
\* found is deleted by its id (no row when another request deleted it)
api_remove_from_watchlist_commit(w) ==
    /\ req[w].pc = "checked" /\ req[w].op = "remove"
    /\ watchlist' = SelectSeq(watchlist, LAMBDA row : row.id # req[w].found)
    /\ req' = [req EXCEPT ![w] = AnsweredFor(req[w], 200, "success")]
    /\ UNCHANGED << votes, watchlist_next_id, alerts, cacheVars, parseVars,
                    normVars, topicVars, moreVars >>

WatchlistNext ==
    \E w \in Workers :
        \/ \E u \in Users, d \in WatchData : api_add_to_watchlist(w, u, d)
        \/ api_add_to_watchlist_commit(w)
        \/ \E u \in Users, b \in WatchedBills : api_remove_from_watchlist(w, u, b)
        \/ api_remove_from_watchlist_commit(w)

SpecWatchlist == Init /\ [][WatchlistNext]_vars

\* ------------------------------------------------ topic alerts (database)
AlertTopics == {"education", "environment"}

RECURSIVE TopicLists(_)
\* the lists of n topics, repetitions included
TopicLists(n) ==
    IF n = 0 THEN { << >> }
    ELSE { Append(l, t) : l \in TopicLists(n - 1), t \in AlertTopics }

\* the request body: no 'topics' key, 'topics': null, or a list of topics
AlertData ==
    { [k |-> "absent", topics |-> << >>], [k |-> "null", topics |-> << >>] }
    \cup { [k |-> "list", topics |-> l] :
             l \in UNION { TopicLists(n) : n \in 0..MaxTopics } }

\* the rows of a user, in insertion order
RowsOfUser(table, uid) == SelectSeq(table, LAMBDA row : row.user_id = uid)

\* TopicAlert.query.filter_by(user_id=current_user.id).delete()
DeleteAlerts(table, uid) == SelectSeq(table, LAMBDA row : row.user_id # uid)

\* UniqueConstraint('user_id', 'topic'): the insert is accepted
UniqueAlertPerUser(table, uid, topic) ==
    \A i \in 1..Len(table) : ~(table[i].user_id = uid /\ table[i].topic = topic)

RECURSIVE InsertAlerts(_, _, _, _)
\* the inserts flushed by db.session.commit(), from the i-th topic on: the
\* table afterwards, ok FALSE when an insert is refused
InsertAlerts(table, uid, request_topics, i) ==
    IF i > Len(request_topics) THEN [ok |-> TRUE, table |-> table]
    ELSE IF UniqueAlertPerUser(table, uid, request_topics[i])
         THEN InsertAlerts(Append(table, [user_id |-> uid,
                                          topic |-> request_topics[i]]),
                           uid, request_topics, i + 1)
         ELSE [ok |-> FALSE, table |-> table]

\* a variant of Rollback that keeps what the transaction did so far
RollbackKeepsWrites(before, current) == current

\* db.session.rollback(): the table as it was before the transaction
Rollback(before, current) == before

\* api_update_topic_alerts. The DELETE takes the write lock on the user's
\* rows, which the transaction holds until it commits or rolls back, so the
\* handler is one step; fails says that the database raised for a reason
\* of its own (lock wait timeout, deadlock victim, connection lost)
api_update_topic_alerts(w, user, data, fails) ==
    /\ req[w].pc # "checked"
    /\ LET r == [NoRequest EXCEPT !.op = "alerts", !.user = user, !.arg = data]
           deleted == DeleteAlerts(alerts, user)
           inserted == InsertAlerts(deleted, user, data.topics, 1)
       IN CASE data.k = "absent" ->
                 /\ alerts' = alerts
                 /\ req' = [req EXCEPT ![w] = AnsweredFor(r, 400, "error")]
            [] data.k = "null" ->
                 \* "for topic in None" raises after the delete
                 /\ alerts' = Rollback(alerts, deleted)
                 /\ req' = [req EXCEPT ![w] = AnsweredFor(r, 500, "error")]
            [] data.k = "list" /\ (fails \/ ~inserted.ok) ->
                 /\ alerts' = Rollback(alerts, inserted.table)
                 /\ req' = [req EXCEPT ![w] = AnsweredFor(r, 500, "error")]
            [] OTHER ->
                 /\ alerts' = inserted.table
                 /\ req' = [req EXCEPT ![w] = AnsweredFor(r, 200, "success")]
    /\ UNCHANGED << votes, watchlist, watchlist_next_id, cacheVars, parseVars,
                    normVars, topicVars, moreVars >>

\* the handler being one step, the requests are put on one worker
AlertsNext ==
    \E u \in Users, d \in AlertData, fails \in BOOLEAN :
        api_update_topic_alerts(1, u, d, fails)

SpecAlerts == Init /\ [][AlertsNext]_vars

\* ---------------------------------------- full normalizer, the two loops
FullSponsorDefault == <<"Sponsor information not available from Congress.gov API">>

\* outcome of the detail request of process_congress_bill: it raised, a
\* status other than 200, or 200 with the full name of the first sponsor
\* (None: no sponsors in the response)
DetailResponses ==
    { [status |-> "raise", sponsor |-> None], [status |-> "500", sponsor |-> None],
      [status |-> "200", sponsor |-> None],
      [status |-> "200", sponsor |-> Some(<<"Rep. Doe, Jane">>)] }

\* the detail request is made: the inner try reaches requests.get
DetailRequested(congress_bill) ==
    /\ congress_bill.isdict
    /\ CanLower(Get(congress_bill.type, JStr(<< >>)))
    /\ Truthy(Get(congress_bill.number, JStr(<< >>)))
    /\ Get(congress_bill.type, JStr(<< >>)).s # << >>
    /\ Truthy(Get(congress_bill.congress, DefaultCongress))

\* the sponsor text: the inner try / except leaves '' on any failure, and
\* '' is replaced by the default text
FullSponsor(congress_bill, detail) ==
    IF /\ DetailRequested(congress_bill)
       /\ detail.status = "200" /\ detail.sponsor # None
    THEN detail.sponsor[1] ELSE FullSponsorDefault

\* the record raises in the outer try block of process_congress_bill
FullRaises(congress_bill) ==
    \/ ~congress_bill.isdict
    \/ ~CanLower(Get(congress_bill.originChamber, JStr(<< >>)))
    \/ ~CanLower(Get(congress_bill.type, JStr(<< >>)))

\* process_congress_bill: None when the record raises, else the processed
\* bill
process_congress_bill(congress_bill, detail) ==
    IF FullRaises(congress_bill) THEN None
    ELSE LET chamber == Lower(Get(congress_bill.originChamber, JStr(<< >>)).s)
             bill_number == Get(congress_bill.number, JStr(<< >>))
             congress_number == Get(congress_bill.congress, DefaultCongress)
             bill_type == Lower(Get(congress_bill.type, JStr(<< >>)).s)
         IN Some([bill_id |-> JStr(BillIdOf(bill_type, bill_number,
                                             congress_number, chamber)),
                  title |-> Get(congress_bill.title, JStr(<< >>)),
                  summary |-> JStr(SummaryPlaceholder),
                  chamber |-> JStr(ChamberFormat(chamber)),
                  sponsor |-> JStr(FullSponsor(congress_bill, detail)),
                  bill_type |-> Get(congress_bill.type, JStr(<< >>)),
                  bill_number |-> Get(congress_bill.number, JStr(<< >>)),
                  congress |-> Get(congress_bill.congress, DefaultCongress)])

RECURSIVE FullLoop(_, _, _, _)
\* the loop of api_fetch_bills; details[i] is the outcome of the detail
\* request of the i-th record
FullLoop(bills, details, i, processed_bills) ==
    IF i > Len(bills) THEN processed_bills
    ELSE LET processed_bill == process_congress_bill(bills[i], details[i])
         IN FullLoop(bills, details, i + 1,
                     IF processed_bill # None
                     THEN Append(processed_bills, processed_bill[1])
                     ELSE processed_bills)

\* the values the provider's records have in the fields the identifier is
\* made of: missing, empty, a string, null
TypeValues == { JAbsent, JStr(<< >>), JStr(<<"H", "R">>), JStr(<<"h", "r">>), JNull }
NumberValues == { JAbsent, JStr(<< >>), JStr(<<"1">>), JNull }
ChamberValues == { JAbsent, JStr(<< >>), JStr(<<"H", "o", "u", "s", "e">>), JNull }
CongressValues == { JAbsent, JNum(117) }

FieldRecords ==
    { [isdict |-> TRUE, title |-> JStr(<<"A", " ", "b", "i", "l", "l">>),
       number |-> n, congress |-> c, type |-> t, originChamber |-> o] :
         n \in NumberValues, c \in CongressValues, t \in TypeValues,
         o \in ChamberValues }

\* two records have the same lower-cased type, number and congress
SameTypeNumberCongress(a, b) ==
    /\ CanLower(Get(a.type, JStr(<< >>))) /\ CanLower(Get(b.type, JStr(<< >>)))
    /\ Lower(Get(a.type, JStr(<< >>)).s) = Lower(Get(b.type, JStr(<< >>)).s)
    /\ Get(a.number, JStr(<< >>)) = Get(b.number, JStr(<< >>))
    /\ Get(a.congress, DefaultCongress) = Get(b.congress, DefaultCongress)

\* an element of the provider's list that is not a JSON object
RawNotDict == [isdict |-> FALSE, title |-> JAbsent, number |-> JAbsent,
               congress |-> JAbsent, type |-> JAbsent, originChamber |-> JAbsent]

BatchRecords == { RawHR1, RawS2, RawBad, RawNotDict }

RECURSIVE BatchesOfLen(_)
BatchesOfLen(n) ==
    IF n = 0 THEN { << >> }
    ELSE { Append(l, r) : l \in BatchesOfLen(n - 1), r \in BatchRecords }

\* the lists given to the loops: every single record, every pair of
\* records with the same type, number and congress, every batch
RawLists ==
    { << r >> : r \in FieldRecords }
    \cup { << p[1], p[2] >> : p \in { q \in FieldRecords \X FieldRecords :
                                         SameTypeNumberCongress(q[1], q[2]) } }
    \cup UNION { BatchesOfLen(n) : n \in 0..MaxRaw }

NormInit ==
    /\ CacheInit /\ ParseIdle /\ TopicIdle /\ DbInit /\ MoreIdle
    /\ raw_bills \in RawLists
    /\ normalized = NoNormalized

\* the normalization loop of get_processed_bills_cached on the list
lightweight_loop(limit) ==
    /\ normalized' = [by |-> "lightweight", limit |-> limit,
                      out |-> ProcessLoop(raw_bills, limit, 0, << >>)]
    /\ UNCHANGED << raw_bills, cacheVars, parseVars, topicVars, dbVars, moreVars >>

\* the normalization loop of api_fetch_bills on the list
full_loop(details) ==
    /\ normalized' = [by |-> "full", limit |-> 0,
                      out |-> FullLoop(raw_bills, details, 1, << >>)]
    /\ UNCHANGED << raw_bills, cacheVars, parseVars, topicVars, dbVars, moreVars >>

NormNext ==
    \/ \E limit \in Limits : lightweight_loop(limit)
    \/ \E details \in [1..Len(raw_bills) -> DetailResponses] : full_loop(details)

SpecNorm == NormInit /\ [][NormNext]_vars

\* ------------------------------------------------------- topic classifier
\* the topic -> keywords dictionary, in insertion order
TOPIC_KEYWORDS ==
    <<
      [topic |-> "education", keywords |-> <<
          <<"e", "d", "u", "c", "a", "t", "i", "o", "n">>, <<"s", "c", "h", "o", "o", "l">>,
          <<"u", "n", "i", "v", "e", "r", "s", "i", "t", "y">>, <<"c", "o", "l", "l", "e", "g", "e">>,
          <<"s", "t", "u", "d", "e", "n", "t">>, <<"t", "e", "a", "c", "h", "e", "r">>,
          <<"l", "e", "a", "r", "n", "i", "n", "g">>, <<"a", "c", "a", "d", "e", "m", "i", "c">>,
          <<"c", "a", "m", "p", "u", "s">>, <<"s", "c", "h", "o", "l", "a", "r", "s", "h", "i", "p">>,
          <<"d", "e", "g", "r", "e", "e">>, <<"c", "u", "r", "r", "i", "c", "u", "l", "u", "m">>,
          <<"c", "l", "a", "s", "s", "r", "o", "o", "m">>, <<"t", "e", "x", "t", "b", "o", "o", "k">>,
          <<"t", "u", "i", "t", "i", "o", "n">>, <<"e", "n", "r", "o", "l", "l", "m", "e", "n", "t">> >>],
      [topic |-> "student_loans", keywords |-> <<
          <<"s", "t", "u", "d", "e", "n", "t", " ", "l", "o", "a", "n">>,
          <<"s", "t", "u", "d", "e", "n", "t", " ", "d", "e", "b", "t">>,
          <<"f", "e", "d", "e", "r", "a", "l", " ", "s", "t", "u", "d", "e", "n", "t", " ", "a", "i", "d">>,
          <<"p", "e", "l", "l", " ", "g", "r", "a", "n", "t">>,
          <<"f", "i", "n", "a", "n", "c", "i", "a", "l", " ", "a", "i", "d">>,
          <<"t", "u", "i", "t", "i", "o", "n">>, <<"b", "o", "r", "r", "o", "w", "e", "r">>,
          <<"r", "e", "p", "a", "y", "m", "e", "n", "t">>,
          <<"f", "o", "r", "g", "i", "v", "e", "n", "e", "s", "s">>, <<"d", "e", "f", "a", "u", "l", "t">>,
          <<"i", "n", "t", "e", "r", "e", "s", "t", " ", "r", "a", "t", "e">> >>],
      [topic |-> "mental_health", keywords |-> <<
          <<"m", "e", "n", "t", "a", "l", " ", "h", "e", "a", "l", "t", "h">>,
          <<"m", "e", "n", "t", "a", "l", " ", "i", "l", "l", "n", "e", "s", "s">>,
          <<"p", "s", "y", "c", "h", "i", "a", "t", "r", "i", "c">>, <<"t", "h", "e", "r", "a", "p", "y">>,
          <<"c", "o", "u", "n", "s", "e", "l", "i", "n", "g">>,
          <<"d", "e", "p", "r", "e", "s", "s", "i", "o", "n">>, <<"a", "n", "x", "i", "e", "t", "y">>,
          <<"s", "u", "i", "c", "i", "d", "e", " ", "p", "r", "e", "v", "e", "n", "t", "i", "o", "n">>,
          <<"b", "e", "h", "a", "v", "i", "o", "r", "a", "l">>,
          <<"p", "s", "y", "c", "h", "o", "l", "o", "g", "i", "c", "a", "l">>,
          <<"w", "e", "l", "l", "n", "e", "s", "s">>, <<"c", "r", "i", "s", "i", "s">>,
          <<"t", "r", "e", "a", "t", "m", "e", "n", "t">> >>],
      [topic |-> "youth_voting", keywords |-> <<
          <<"y", "o", "u", "t", "h", " ", "v", "o", "t", "i", "n", "g">>,
          <<"v", "o", "t", "i", "n", "g", " ", "a", "g", "e">>,
          <<"s", "t", "u", "d", "e", "n", "t", " ", "v", "o", "t", "i", "n", "g">>,
          <<"c", "a", "m", "p", "u", "s", " ", "v", "o", "t", "i", "n", "g">>,
          <<"v", "o", "t", "e", "r", " ", "r", "e", "g", "i", "s", "t", "r", "a", "t", "i", "o", "n">>,
          <<"e", "l", "e", "c", "t", "i", "o", "n", " ", "a", "c", "c", "e", "s", "s">>,
          <<"d", "e", "m", "o", "c", "r", "a", "c", "y">>, <<"c", "i", "v", "i", "c">>,
          <<"p", "a", "r", "t", "i", "c", "i", "p", "a", "t", "i", "o", "n">>,
          <<"f", "r", "a", "n", "c", "h", "i", "s", "e">> >>],
      [topic |-> "environment", keywords |-> <<
          <<"e", "n", "v", "i", "r", "o", "n", "m", "e", "n", "t">>, <<"c", "l", "i", "m", "a", "t", "e">>,
          <<"g", "r", "e", "e", "n", " ", "e", "n", "e", "r", "g", "y">>,
          <<"r", "e", "n", "e", "w", "a", "b", "l", "e">>, <<"c", "a", "r", "b", "o", "n">>,
          <<"e", "m", "i", "s", "s", "i", "o", "n", "s">>, <<"p", "o", "l", "l", "u", "t", "i", "o", "n">>,
          <<"c", "o", "n", "s", "e", "r", "v", "a", "t", "i", "o", "n">>,
          <<"s", "u", "s", "t", "a", "i", "n", "a", "b", "i", "l", "i", "t", "y">>,
          <<"c", "l", "e", "a", "n", " ", "a", "i", "r">>, <<"w", "a", "t", "e", "r">>,
          <<"w", "i", "l", "d", "l", "i", "f", "e">>, <<"e", "c", "o", "s", "y", "s", "t", "e", "m">>,
          <<"r", "e", "n", "e", "w", "a", "b", "l", "e", " ", "e", "n", "e", "r", "g", "y">>,
          <<"s", "o", "l", "a", "r">>, <<"w", "i", "n", "d">> >>],
      [topic |-> "healthcare", keywords |-> <<
          <<"h", "e", "a", "l", "t", "h">>, <<"h", "e", "a", "l", "t", "h", "c", "a", "r", "e">>,
          <<"m", "e", "d", "i", "c", "a", "l">>, <<"h", "o", "s", "p", "i", "t", "a", "l">>,
          <<"d", "o", "c", "t", "o", "r">>, <<"n", "u", "r", "s", "e">>,
          <<"i", "n", "s", "u", "r", "a", "n", "c", "e">>, <<"m", "e", "d", "i", "c", "a", "r", "e">>,
          <<"m", "e", "d", "i", "c", "a", "i", "d">>,
          <<"p", "h", "a", "r", "m", "a", "c", "e", "u", "t", "i", "c", "a", "l">>, <<"d", "r", "u", "g">>,
          <<"p", "r", "e", "s", "c", "r", "i", "p", "t", "i", "o", "n">>,
          <<"t", "r", "e", "a", "t", "m", "e", "n", "t">>, <<"p", "a", "t", "i", "e", "n", "t">> >>],
      [topic |-> "economy", keywords |-> <<
          <<"e", "c", "o", "n", "o", "m", "y">>, <<"e", "c", "o", "n", "o", "m", "i", "c">>,
          <<"b", "u", "s", "i", "n", "e", "s", "s">>, <<"j", "o", "b">>,
          <<"e", "m", "p", "l", "o", "y", "m", "e", "n", "t">>,
          <<"u", "n", "e", "m", "p", "l", "o", "y", "m", "e", "n", "t">>, <<"w", "a", "g", "e">>,
          <<"s", "a", "l", "a", "r", "y">>, <<"i", "n", "c", "o", "m", "e">>, <<"t", "a", "x">>,
          <<"b", "u", "d", "g", "e", "t">>, <<"d", "e", "f", "i", "c", "i", "t">>,
          <<"i", "n", "f", "l", "a", "t", "i", "o", "n">>, <<"r", "e", "c", "e", "s", "s", "i", "o", "n">> >>],
      [topic |-> "technology", keywords |-> <<
          <<"t", "e", "c", "h", "n", "o", "l", "o", "g", "y">>, <<"t", "e", "c", "h">>,
          <<"d", "i", "g", "i", "t", "a", "l">>, <<"i", "n", "t", "e", "r", "n", "e", "t">>,
          <<"c", "y", "b", "e", "r">>, <<"d", "a", "t", "a">>, <<"p", "r", "i", "v", "a", "c", "y">>,
          <<"a", "r", "t", "i", "f", "i", "c", "i", "a", "l", " ", "i", "n", "t", "e", "l", "l", "i", "g", "e", "n", "c", "e">>,
          <<"a", "i">>, <<"c", "o", "m", "p", "u", "t", "e", "r">>,
          <<"s", "o", "f", "t", "w", "a", "r", "e">>, <<"h", "a", "r", "d", "w", "a", "r", "e">>,
          <<"i", "n", "n", "o", "v", "a", "t", "i", "o", "n">> >>],
      [topic |-> "immigration", keywords |-> <<
          <<"i", "m", "m", "i", "g", "r", "a", "t", "i", "o", "n">>,
          <<"i", "m", "m", "i", "g", "r", "a", "n", "t">>, <<"b", "o", "r", "d", "e", "r">>,
          <<"v", "i", "s", "a">>, <<"c", "i", "t", "i", "z", "e", "n", "s", "h", "i", "p">>,
          <<"a", "s", "y", "l", "u", "m">>, <<"r", "e", "f", "u", "g", "e", "e">>,
          <<"d", "e", "p", "o", "r", "t", "a", "t", "i", "o", "n">>,
          <<"n", "a", "t", "u", "r", "a", "l", "i", "z", "a", "t", "i", "o", "n">> >>],
      [topic |-> "criminal_justice", keywords |-> <<
          <<"c", "r", "i", "m", "i", "n", "a", "l">>, <<"j", "u", "s", "t", "i", "c", "e">>,
          <<"p", "o", "l", "i", "c", "e">>,
          <<"l", "a", "w", " ", "e", "n", "f", "o", "r", "c", "e", "m", "e", "n", "t">>,
          <<"p", "r", "i", "s", "o", "n">>, <<"j", "a", "i", "l">>,
          <<"i", "n", "c", "a", "r", "c", "e", "r", "a", "t", "i", "o", "n">>,
          <<"r", "e", "h", "a", "b", "i", "l", "i", "t", "a", "t", "i", "o", "n">>,
          <<"r", "e", "f", "o", "r", "m">>, <<"s", "e", "n", "t", "e", "n", "c", "i", "n", "g">> >>]
    >>

\* the words of the two fallback tests
GeneralWords ==
    << <<"a", "c", "t">>, <<"l", "a", "w">>, <<"b", "i", "l", "l">>,
    <<"l", "e", "g", "i", "s", "l", "a", "t", "i", "o", "n">> >>
ReformWords ==
    << <<"a", "m", "e", "n", "d", "m", "e", "n", "t">>, <<"m", "o", "d", "i", "f", "y">>,
    <<"c", "h", "a", "n", "g", "e">>, <<"u", "p", "d", "a", "t", "e">> >>

\* "keyword in text": keyword is a substring of text
Contains(text, keyword) ==
    \E i \in 1..(Len(text) - Len(keyword) + 1) :
        text[i] = keyword[1] /\ SubSeq(text, i, i + Len(keyword) - 1) = keyword

\* any(word in text for word in words)
ContainsAny(text, words) == \E j \in 1..Len(words) : Contains(text, words[j])

RECURSIVE LStrip(_)
LStrip(chars) ==
    IF chars # << >> /\ Head(chars) = " " THEN LStrip(Tail(chars)) ELSE chars

RECURSIVE RStrip(_)
RStrip(chars) ==
    IF chars # << >> /\ chars[Len(chars)] = " "
    THEN RStrip(SubSeq(chars, 1, Len(chars) - 1)) ELSE chars

\* str.strip()
Strip(chars) == RStrip(LStrip(chars))

\* a variant of TooShort without the guard
NeverTooShort(text) == FALSE

\* "if not text or len(text.strip()) < 10"
TooShort(text) == text = << >> \/ Len(Strip(text)) < 10

\* f"{bill.get('title', '')} {bill.get('summary', '')}".lower()
TextOf(b) ==
    Lower(Format(Get(b.title, JStr(<< >>))) \o <<" ">>
          \o Format(Get(b.summary, JStr(<< >>))))

\* a variant of TopicMatches that tries the first keyword only
FirstKeywordMatches(text, keywords) == Contains(text, keywords[1])

\* "for keyword in keywords: if keyword in text: ... break"
TopicMatches(text, keywords) == ContainsAny(text, keywords)

RECURSIVE KeywordPass(_, _, _)
\* the loop over TOPIC_KEYWORDS.items(), from the i-th topic on: a topic is
\* appended once when one of its keywords is in the text
KeywordPass(text, i, found) ==
    IF i > Len(TOPIC_KEYWORDS) THEN found
    ELSE KeywordPass(text, i + 1,
                     IF TopicMatches(text, TOPIC_KEYWORDS[i].keywords)
                     THEN Append(found, TOPIC_KEYWORDS[i].topic) ELSE found)

\* a variant of Fallback that adds the tag whatever the keyword pass found
FallbackAlways(text, found) ==
    IF ContainsAny(text, GeneralWords) THEN Append(found, "general_legislation")
    ELSE IF ContainsAny(text, ReformWords) THEN Append(found, "legislative_reform")
    ELSE found

\* "if not topics:" and the two tests on common patterns
Fallback(text, found) ==
    IF found # << >> THEN found
    ELSE IF ContainsAny(text, GeneralWords) THEN << "general_legislation" >>
    ELSE IF ContainsAny(text, ReformWords) THEN << "legislative_reform" >>
    ELSE << >>

\* categorize_bill(bill): the list of topics
categorize_bill(b) ==
    LET text == TextOf(b)
    IN IF TooShort(text) THEN << >>
       ELSE Fallback(text, KeywordPass(text, 1, << >>))

\* the words titles are made of
TitleWords == { <<"T", "a", "x">>, <<"W", "a", "t", "e", "r">>, <<"C", "l", "i", "m", "a", "t", "e">>, <<"A", "n">>, <<"A", "c", "t">>, <<"C", "h", "a", "n", "g", "e">>, <<"M", "o", "d", "i", "f", "y">>, <<"R", "e", "s", "o", "l", "u", "t", "i", "o", "n">> }

RECURSIVE TitlesOfWords(_)
\* the titles of n words, separated by one space
TitlesOfWords(n) ==
    IF n = 1 THEN TitleWords
    ELSE { t \o <<" ">> \o w : t \in TitlesOfWords(n - 1), w \in TitleWords }

\* the titles given: no title, null, the title of the spec's example, and
\* the titles of up to MaxWords words
Titles ==
    { JAbsent, JNull, JStr(<< >>),
      JStr(<<"C", "l", "i", "m", "a", "t", "e", " ", "C", "h", "a", "n", "g", "e", " ", "M", "i", "t", "i", "g", "a", "t", "i", "o", "n", " ", "A", "c", "t">>) }
    \cup { JStr(t) : t \in UNION { TitlesOfWords(n) : n \in 1..MaxWords } }

\* the summaries given: no summary, '' (lightweight normalizer), the
\* placeholder text (full normalizer)
Summaries ==
    { JAbsent, JStr(<< >>), JStr(<<"T", "e", "x", "t", " ", "n", "o", "t", " ", "a", "v", "a", "i", "l", "a", "b", "l", "e">>) }

TopicInit ==
    /\ CacheInit /\ ParseIdle /\ NormIdle /\ DbInit /\ MoreIdle
    /\ bill \in [title : Titles, summary : Summaries]
    /\ topics = None

\* a call of categorize_bill on the dict
categorize ==
    /\ topics' = Some(categorize_bill(bill))
    /\ UNCHANGED << bill, cacheVars, parseVars, normVars, dbVars, moreVars >>

TopicNext == categorize

SpecTopics == TopicInit /\ [][TopicNext]_vars

\* ------------------------------------- the two normalizers, tag by tag
\* 'Text not available', the summary of the full normalizer, as the
\* classifier reads it
SummaryText == <<"T", "e", "x", "t", " ", "n", "o", "t", " ", "a", "v", "a", "i", "l", "a", "b", "l", "e">>

\* the dict process_congress_bill_lightweight gives to categorize_bill
LightweightDict(congress_bill) ==
    [title |-> Get(congress_bill.title, JStr(<< >>)), summary |-> JStr(<< >>)]

\* the dict process_congress_bill gives to categorize_bill
FullDict(congress_bill) ==
    [title |-> Get(congress_bill.title, JStr(<< >>)), summary |-> JStr(SummaryText)]

\* 'topics' of the lightweight normalizer's bill
LightweightTopics(congress_bill) == categorize_bill(LightweightDict(congress_bill))

\* 'topics' of the full normalizer's bill
FullTopics(congress_bill) == categorize_bill(FullDict(congress_bill))

\* the records given to both normalizers: every title, with and without a
\* number, with a chamber and with a null chamber (the record raises)
TagRecords ==
    { [isdict |-> TRUE, title |-> t, number |-> n, congress |-> JNum(118),
       type |-> JStr(<<"H", "R">>), originChamber |-> o] :
         t \in Titles, n \in { JStr(<<"1">>), JAbsent },
         o \in { JStr(<<"H", "o", "u", "s", "e">>), JNull } }

TagInit ==
    /\ CacheInit /\ ParseIdle /\ TopicIdle /\ DbInit /\ MoreIdle
    /\ raw_bills \in { << r >> : r \in TagRecords }
    /\ normalized = NoNormalized

\* process_congress_bill_lightweight on the record: the bill it returns,
\* the dict it classifies and the topics it stores
lightweight_call ==
    /\ normalized' = [by |-> "lightweight", limit |-> 0,
                      out |-> process_congress_bill_lightweight(raw_bills[1])]
    /\ IF LightweightRaises(raw_bills[1])
       THEN UNCHANGED topicVars
       ELSE /\ bill' = LightweightDict(raw_bills[1])
            /\ topics' = Some(LightweightTopics(raw_bills[1]))
    /\ UNCHANGED << raw_bills, cacheVars, parseVars, dbVars, moreVars >>

\* process_congress_bill on the record
full_call(detail) ==
    /\ normalized' = [by |-> "full", limit |-> 0,
                      out |-> process_congress_bill(raw_bills[1], detail)]
    /\ IF FullRaises(raw_bills[1])
       THEN UNCHANGED topicVars
       ELSE /\ bill' = FullDict(raw_bills[1])
            /\ topics' = Some(FullTopics(raw_bills[1]))
    /\ UNCHANGED << raw_bills, cacheVars, parseVars, dbVars, moreVars >>

TagNext ==
    \/ lightweight_call
    \/ \E detail \in DetailResponses : full_call(detail)

SpecTags == TagInit /\ [][TagNext]_vars

\* ------------------------------------- the provider client, call by call
\* the query parameters of a bill-list request (chamber None: the request
\* carries no 'chamber' parameter)
BothParams == [limit |-> 50, offset |-> 0, chamber |-> None]
ChamberParams(chamber) == [limit |-> 250, offset |-> 0, chamber |-> Some(chamber)]

\* the requests.get calls of fetch_bills_from_api when the raw cache is not
\* valid, in the order they are made: r1 is the outcome of the first
RequestsSent(chamber, r1) ==
    IF chamber = "both"
    THEN IF r1.status = "raise" THEN << BothParams >>
         ELSE << BothParams, BothParams >>
    ELSE << ChamberParams(chamber) >>

\* what the provider can answer to a bill-list request
FetchLists == { << >>, << RawHR1 >>, << RawS2 >>, << RawHR1, RawS2 >> }
FetchResponses ==
    Failures \cup { [status |-> "200", bills |-> l] : l \in FetchLists }

\* the answers to the requests made (none when the raw cache is valid)
ResponsesTo(chamber) ==
    IF EntryValid(api_bills_cache, api_bills_cache_time, now) THEN { << >> }
    ELSE { << r1 >> : r1 \in { r \in FetchResponses :
                                  chamber # "both" \/ r.status = "raise" } }
         \cup (IF chamber = "both"
               THEN { << r1, r2 >> : r1 \in { r \in FetchResponses : r.status # "raise" },
                                     r2 \in FetchResponses }
               ELSE {})

\* one call of fetch_bills_from_api(chamber)
fetch_call(chamber) ==
    \E rs \in ResponsesTo(chamber) :
    LET valid == EntryValid(api_bills_cache, api_bills_cache_time, now)
        unused == CHOOSE r \in Failures : TRUE
        r1 == IF Len(rs) >= 1 THEN rs[1] ELSE unused
        r2 == IF Len(rs) >= 2 THEN rs[2] ELSE unused
        f == fetch_bills_from_api(chamber, r1, r2, api_bills_cache,
                                  api_bills_cache_time, now)
    IN /\ api_bills_cache' = f.cache
       /\ api_bills_cache_time' = f.cache_time
       /\ fetched' = [chamber |-> chamber, valid |-> valid,
                      sent |-> IF valid THEN << >> ELSE RequestsSent(chamber, r1),
                      responses |-> rs, ret |-> f.ret]
       /\ last' = [NoCall EXCEPT !.op = "api_fetch", !.requests = f.requests]
       /\ UNCHANGED << now, ticks, processed_bills_cache,
                       processed_bills_cache_time, cache_file,
                       processed_fetched_at, file_fetched_at, partial_stored,
                       parseVars, normVars, topicVars, dbVars, calls, home,
                       paged >>

FetchNext ==
    \/ \E d \in TickSteps : Tick(d)
    \/ \E chamber \in Chambers : fetch_call(chamber)

SpecFetch == Init /\ [][FetchNext]_vars

\* ------------------- get_processed_bills_cached, statement by statement
\* Two request threads run get_processed_bills_cached() (chamber 'both',
\* no limit) at the same time. Each step below is one access to the shared
\* module-level variables or to the file; the requests and the
\* normalization loop work on locals and are part of the step before.

\* the list cached by an earlier call, now older than the TTL
OldRaw == << RawHR1, RawS2 >>
OldBills == ProcessLoop(OldRaw, 0, 0, << >>)

\* the states two calls can start on: nothing cached, or a cache that was
\* filled at time 1 and has expired
RaceStarts ==
    { [now |-> 1, list |-> None, time |-> None, raw |-> None, file |-> None],
      [now |-> 1 + CACHE_DURATION + 1, list |-> Some(OldBills), time |-> Some(1),
       raw |-> Some(OldRaw), file |-> Some(JsonDump(1, OldBills))] }

RaceInit ==
    /\ \E st \in RaceStarts :
          /\ now = st.now
          /\ processed_bills_cache = st.list
          /\ processed_bills_cache_time = st.time
          /\ api_bills_cache = st.raw
          /\ api_bills_cache_time = st.time
          /\ cache_file = st.file
    /\ ticks = 0 /\ processed_fetched_at = 0 /\ file_fetched_at = 0
    /\ partial_stored = None
    /\ last = NoCall
    /\ ParseIdle /\ NormIdle /\ TopicIdle /\ DbInit
    /\ fetched = NoFetch /\ home = NoHome /\ PageIdle
    /\ calls = [w \in Workers |-> [NoCallYet EXCEPT !.pc = "start"]]

\* a variant of Overwrite in which the write replaces the whole file
OverwriteWhole(old, new) == new

\* a write of new at offset 0 of a file holding old: what lies beyond the
\* written part stays
Overwrite(old, new) == new \o SubSeq(old, Len(new) + 1, Len(old))

RaceFrame == UNCHANGED << now, ticks, processed_fetched_at, file_fetched_at,
                          partial_stored, last,
                          parseVars, normVars, topicVars, dbVars, fetched,
                          home, paged >>

\* l.519-523: the test of the in-memory entry
check_memory(w) ==
    /\ calls[w].pc = "start"
    /\ calls' = [calls EXCEPT ![w] =
                  IF EntryValid(processed_bills_cache, processed_bills_cache_time, now)
                  THEN [@ EXCEPT !.pc = "done", !.source = "memory",
                                 !.ret = processed_bills_cache]
                  ELSE [@ EXCEPT !.pc = "load"]]
    /\ UNCHANGED << api_bills_cache, api_bills_cache_time, processed_bills_cache,
                    processed_bills_cache_time, cache_file >>
    /\ RaceFrame

\* l.526, l.399-411: load_cache_from_file up to its return or its except
load_file(w) ==
    /\ calls[w].pc = "load"
    /\ LET cache_data == IF cache_file = None
                         THEN [ok |-> FALSE, timestamp |-> 0, bills |-> << >>]
                         ELSE JsonLoad(cache_file[1])
       IN calls' = [calls EXCEPT ![w] =
                     CASE cache_file = None -> [@ EXCEPT !.pc = "fetch"]
                       [] cache_file # None /\ ~cache_data.ok ->
                             [@ EXCEPT !.pc = "remove"]
                       [] cache_file # None /\ cache_data.ok
                          /\ Fresh(cache_data.timestamp, now)
                          /\ cache_data.bills # << >> ->
                             [@ EXCEPT !.pc = "promote", !.source = "file",
                                       !.processed_bills = cache_data.bills]
                       [] OTHER -> [@ EXCEPT !.pc = "fetch"]]
    /\ UNCHANGED << api_bills_cache, api_bills_cache_time, processed_bills_cache,
                    processed_bills_cache_time, cache_file >>
    /\ RaceFrame

\* l.416-417: os.remove of the file that did not parse; a thread that has
\* the file open keeps writing to the removed file
remove_file(w) ==
    /\ calls[w].pc = "remove"
    /\ cache_file' = None
    /\ calls' = [v \in Workers |->
                  IF v = w THEN [calls[v] EXCEPT !.pc = "fetch"]
                  ELSE [calls[v] EXCEPT !.linked = FALSE]]
    /\ UNCHANGED << api_bills_cache, api_bills_cache_time, processed_bills_cache,
                    processed_bills_cache_time >>
    /\ RaceFrame

\* the statement after fetch_bills_from_api returned api_bills: "if
\* api_bills", the loop, "if not limit"
AfterFetch(c, api_bills, n) ==
    IF api_bills = << >>
    THEN [c EXCEPT !.pc = "done", !.source = "miss", !.requests = n,
                   !.ret = Some(<< >>)]
    ELSE [c EXCEPT !.pc = "store_list", !.source = "miss", !.requests = n,
                   !.api_bills = api_bills,
                   !.processed_bills = ProcessLoop(api_bills, 0, 0, << >>)]

\* l.536, l.657-702: the test of the raw cache and the two requests
fetch(w) ==
    /\ calls[w].pc = "fetch"
    /\ \E r1 \in FirstOutcomes : \E r2 \in SecondOutcomes("both", r1) :
          calls' = [calls EXCEPT ![w] =
             CASE EntryValid(api_bills_cache, api_bills_cache_time, now) ->
                     AfterFetch(@, api_bills_cache[1], 0)
               [] ~EntryValid(api_bills_cache, api_bills_cache_time, now)
                  /\ r1.status = "raise" ->
                     [@ EXCEPT !.pc = "done", !.source = "miss", !.requests = 1,
                               !.ret = Some(<< >>)]
               [] ~EntryValid(api_bills_cache, api_bills_cache_time, now)
                  /\ r1.status # "raise" /\ r2.status = "raise" ->
                     [@ EXCEPT !.pc = "done", !.source = "miss", !.requests = 2,
                               !.ret = Some(<< >>)]
               [] OTHER ->
                     [@ EXCEPT !.pc = "store_raw", !.requests = 2,
                               !.api_bills = BillsOf(r1) \o BillsOf(r2)]]
    /\ UNCHANGED << api_bills_cache, api_bills_cache_time, processed_bills_cache,
                    processed_bills_cache_time, cache_file >>
    /\ RaceFrame

\* l.705: api_bills_cache = bills
store_raw(w) ==
    /\ calls[w].pc = "store_raw"
    /\ api_bills_cache' = Some(calls[w].api_bills)
    /\ calls' = [calls EXCEPT ![w].pc = "store_raw_time"]
    /\ UNCHANGED << api_bills_cache_time, processed_bills_cache,
                    processed_bills_cache_time, cache_file >>
    /\ RaceFrame

\* l.706: api_bills_cache_time = time.time(), and the return to the caller
store_raw_time(w) ==
    /\ calls[w].pc = "store_raw_time"
    /\ api_bills_cache_time' = Some(now)
    /\ calls' = [calls EXCEPT ![w] = AfterFetch(@, calls[w].api_bills, 2)]
    /\ UNCHANGED << api_bills_cache, processed_bills_cache,
                    processed_bills_cache_time, cache_file >>
    /\ RaceFrame

\* l.553 (l.529 for a list promoted from the file)
store_list(w) ==
    /\ calls[w].pc \in {"store_list", "promote"}
    /\ processed_bills_cache' = Some(calls[w].processed_bills)
    /\ calls' = [calls EXCEPT ![w].pc = IF calls[w].pc = "promote"
                                      THEN "promote_time" ELSE "store_time"]
    /\ UNCHANGED << api_bills_cache, api_bills_cache_time,
                    processed_bills_cache_time, cache_file >>
    /\ RaceFrame

\* l.555 (l.531, then the return, for a list promoted from the file)
store_time(w) ==
    /\ calls[w].pc \in {"store_time", "promote_time"}
    /\ processed_bills_cache_time' = Some(now)
    /\ calls' = [calls EXCEPT ![w] =
                  IF calls[w].pc = "promote_time"
                  THEN [@ EXCEPT !.pc = "done", !.ret = Some(calls[w].processed_bills)]
                  ELSE [@ EXCEPT !.pc = "open"]]
    /\ UNCHANGED << api_bills_cache, api_bills_cache_time, processed_bills_cache,
                    cache_file >>
    /\ RaceFrame

\* l.427-437: cache_data is built and open(CACHE_FILE, 'w') empties the
\* file (or creates it)
open_file(w) ==
    /\ calls[w].pc = "open"
    /\ cache_file' = Some(<< >>)
    /\ calls' = [calls EXCEPT ![w] = [@ EXCEPT !.pc = "write", !.ts = now,
                                            !.linked = TRUE]]
    /\ UNCHANGED << api_bills_cache, api_bills_cache_time, processed_bills_cache,
                    processed_bills_cache_time >>
    /\ RaceFrame

\* l.438: json.dump; the text reaches the file, from its first byte on,
\* when the with block closes it
write_file(w) ==
    /\ calls[w].pc = "write"
    /\ cache_file' = IF calls[w].linked
                     THEN Some(Overwrite(cache_file[1],
                                         JsonDump(calls[w].ts, calls[w].processed_bills)))
                     ELSE cache_file
    /\ calls' = [calls EXCEPT ![w] = [@ EXCEPT !.pc = "done", !.linked = FALSE,
                                            !.ret = Some(calls[w].processed_bills)]]
    /\ UNCHANGED << api_bills_cache, api_bills_cache_time, processed_bills_cache,
                    processed_bills_cache_time >>
    /\ RaceFrame

RaceNext ==
    \E w \in Workers :
       \/ check_memory(w)
       \/ load_file(w)
       \/ remove_file(w)
       \/ fetch(w)
       \/ store_raw(w)
       \/ store_raw_time(w)
       \/ store_list(w)
       \/ store_time(w)
       \/ open_file(w)
       \/ write_file(w)

SpecRace == RaceInit /\ [][RaceNext]_vars

\* ------------------------------------------------- the home page (index)
Min(a, b) == IF a < b THEN a ELSE b
Max(a, b) == IF a > b THEN a ELSE b

\* "if per_page not in [10, 20, 50]: per_page = 10"
PerPageOf(requested) == IF requested \in {10, 20, 50} THEN requested ELSE 10

\* a variant of TotalPagesOf that rounds down
TotalPagesRoundedDown(total_bills, per_page) ==
    IF total_bills > 0 THEN total_bills \div per_page ELSE 1

\* "(total_bills + per_page - 1) // per_page if total_bills > 0 else 1"
TotalPagesOf(total_bills, per_page) ==
    IF total_bills > 0 THEN (total_bills + per_page - 1) \div per_page ELSE 1

\* "max(1, min(page, total_pages)) if total_pages > 0 else 1"
PageOf(page, total_pages) ==
    IF total_pages > 0 THEN Max(1, Min(page, total_pages)) ELSE 1

\* l[start:end] for 0 <= start <= end
Slice(l, start, end) == SubSeq(l, Min(start, Len(l)) + 1, Min(end, Len(l)))

\* the pagination of index: the page shown of the filtered list
Paginate(filtered_bills, requested_page, requested_per_page) ==
    LET per_page == PerPageOf(requested_per_page)
        total_bills == Len(filtered_bills)
        total_pages == TotalPagesOf(total_bills, per_page)
        page == PageOf(requested_page, total_pages)
        start_idx == (page - 1) * per_page
        end_idx == start_idx + per_page
    IN [per_page |-> per_page, total_pages |-> total_pages, page |-> page,
        bills_for_page |-> Slice(filtered_bills, start_idx, end_idx)]

\* the 'chamber' filter: "bill.get('chamber', '').lower() == chamber_filter.lower()"
ChamberFilter(bills, chamber_filter) ==
    IF chamber_filter = "both" THEN bills
    ELSE SelectSeq(bills, LAMBDA b :
             Lower(b.chamber.s) = <<"h", "o", "u", "s", "e">>)

\* the outcomes of the requests of get_processed_bills_cached_with_stats,
\* in the order they are made: all of them go to the bill-list endpoint;
\* the two chamber counts are asked for when the first answer is 200, and
\* a request that raises ends the function
StatsOutcomes ==
    { << "raise" >>, << "500" >>, << "200", "raise" >> }
    \cup { << "200", h, s >> : h \in {"200", "500"}, s \in {"200", "500", "raise"} }

\* the text of a bill_id as the vote table has it
IdText(chars) ==
    CASE chars = <<"h", "r", "1", "-", "1", "1", "8">> -> "hr1-118"
      [] chars = <<"s", "2", "-", "1", "1", "8">> -> "s2-118"
      [] OTHER -> "other"

\* get_bill_vote_counts
VoteCount(table, bid, vote_type) ==
    Len(SelectSeq(table, LAMBDA row : row.bill_id = bid /\ row.vote_type = vote_type))

\* add_vote_counts_to_bills: the keys added to each bill of the page
AddVoteCounts(bills, table) ==
    [i \in 1..Len(bills) |->
        LET up_votes == VoteCount(table, IdText(bills[i].bill_id.s), "up")
            down_votes == VoteCount(table, IdText(bills[i].bill_id.s), "down")
        IN [bill |-> bills[i], up_votes |-> up_votes, down_votes |-> down_votes,
            total_votes |-> up_votes + down_votes]]

\* the arguments of a request for the home page
PageArgs == {0, 2}
PerPageArgs == {7}
ChamberFilters == {"both", "house"}

\* index: GET / with page, per_page and chamber (no topic, no search)
index ==
    /\ GetProcessedBills("both", 0)
    /\ \E chamber_filter \in ChamberFilters :
       \E filtered_bills \in { ChamberFilter(last'.ret, chamber_filter) } :
       \E requested_page \in PageArgs, requested_per_page \in PerPageArgs :
       \E out \in { Paginate(filtered_bills, requested_page, requested_per_page) } :
       \E bills \in { AddVoteCounts(out.bills_for_page, votes) } :
       \E stats_requests \in { Len(stats) : stats \in StatsOutcomes } :
          home' = [called |-> TRUE,
                   memory_valid |-> EntryValid(processed_bills_cache,
                                               processed_bills_cache_time, now),
                   list_requests |-> last'.requests + stats_requests,
                   per_page |-> out.per_page, total_pages |-> out.total_pages,
                   page |-> out.page, bills |-> bills]
    /\ UNCHANGED << parseVars, normVars, topicVars, dbVars, fetched, calls, paged >>

\* the vote table when the home page is requested
HomeVotes == { << >>,
               << [bill_id |-> "hr1-118", user_id |-> 1, vote_type |-> "up"] >> }

IndexInit ==
    /\ CacheInit /\ ParseIdle /\ NormIdle /\ TopicIdle
    /\ votes \in HomeVotes
    /\ watchlist = << >> /\ watchlist_next_id = 1 /\ alerts = << >>
    /\ req = [w \in Workers |-> NoRequest]
    /\ MoreIdle

IndexNext ==
    \/ \E d \in TickSteps : Tick(d)
    \/ index

SpecIndex == IndexInit /\ [][IndexNext]_vars

\* ------------------------------------------------ pagination, on its own
\* the filtered lists: n bills, named by their position
FilteredLists == { [i \in 1..n |-> i] : n \in 0..MaxBills }
RequestedPages == -1..MaxPageArg
RequestedPerPage == {5, 10, 20, 50}

PageInit ==
    /\ CacheInit /\ ParseIdle /\ NormIdle /\ TopicIdle /\ DbInit
    /\ fetched = NoFetch /\ calls = [w \in Workers |-> NoCallYet]
    /\ home = NoHome
    /\ \E l \in FilteredLists :
          paged = [filtered_bills |-> l, page |-> 0, per_page |-> 0, out |-> NoPage]

\* the pagination of index applied to the list
paginate(requested_page, requested_per_page) ==
    /\ paged' = [paged EXCEPT
                   !.page = requested_page, !.per_page = requested_per_page,
                   !.out = Paginate(paged.filtered_bills, requested_page,
                                    requested_per_page)]
    /\ UNCHANGED << cacheVars, parseVars, normVars, topicVars, dbVars,
                    fetched, calls, home >>

PageNext ==
    \E requested_page \in RequestedPages, requested_per_page \in RequestedPerPage :
       paginate(requested_page, requested_per_page)

SpecPage == PageInit /\ [][PageNext]_vars

\* ------------------------------------------------------------ properties
\* the step is a call of get_processed_bills_cached
GetCall == last'.op = "get"

\* what json.load gives for the file (ok is FALSE when there is no file)
FileData(file) ==
    IF file = None THEN [ok |-> FALSE, timestamp |-> 0, bills |-> << >>]
    ELSE JsonLoad(file[1])

\* the file parses (json.load does not raise)
Parses(file) == FileData(file).ok

\* the full normalization of a raw list: the processed form of every record
\* that does not raise, in input order
RECURSIVE FullNormal(_)
FullNormal(raw) ==
    IF raw = << >> THEN << >>
    ELSE LET b == process_congress_bill_lightweight(Head(raw))
         IN (IF b = None THEN << >> ELSE << b[1] >>) \o FullNormal(Tail(raw))

\* offsets, within the TTL, at which a later call is considered
WithinTTL == {0, 1, CACHE_DURATION - 1}

\* C1: a call never returns, without an outbound request, a non-empty bill
\* list that was fetched from the provider more than 1800 seconds before
\* the call.
StaleNeverServed ==
    (last.op = "get" /\ last.requests = 0 /\ last.ret # << >>) => ~last.stale

MultiLetterTypes == { <<"h", "j", "r", "e", "s">>, <<"s", "j", "r", "e", "s">>, <<"h", "c", "o", "n", "r", "e", "s">>, <<"s", "c", "o", "n", "r", "e", "s">>,
                      <<"h", "r", "e", "s">>, <<"s", "r", "e", "s">> }

\* C2: for an identifier whose type is one of hjres, sjres, hconres,
\* sconres, hres, sres, each of the three routes derives that type and the
\* digits after it as the number.
LongestPrefixSelected ==
    \A t \in MultiLetterTypes, n \in BillNumbers :
        (parsed.by # "none" /\ bill_id = BillIdOf(t, JStr(n), JNum(118), <<"h", "o", "u", "s", "e">>))
            => (parsed.ok /\ parsed.bill_type = t /\ parsed.bill_number = n)

\* the read path accepts / rejects the entries by their timestamps alone
\* (nonEmpty = FALSE) or accepts only entries with a non-empty list
TTLBoundary(nonEmpty) ==
    /\ (processed_bills_cache # None /\ processed_bills_cache_time # None) =>
          /\ (/\ now - processed_bills_cache_time[1] < CACHE_DURATION
              /\ nonEmpty => processed_bills_cache[1] # << >>)
                => (last'.source = "memory" /\ last'.ret = processed_bills_cache[1])
          /\ (now - processed_bills_cache_time[1] > CACHE_DURATION)
                => last'.source # "memory"
          /\ (nonEmpty /\ processed_bills_cache[1] = << >>)
                => last'.source # "memory"
    /\ LET cache_data == FileData(cache_file)
       IN (last'.source # "memory" /\ cache_data.ok) =>
             /\ (/\ now - cache_data.timestamp < CACHE_DURATION
                 /\ nonEmpty => cache_data.bills # << >>)
                   => (last'.source = "file" /\ last'.ret = cache_data.bills)
             /\ (now - cache_data.timestamp > CACHE_DURATION)
                   => last'.source # "file"
             /\ (nonEmpty /\ cache_data.bills = << >>) => last'.source # "file"

\* C3 (as claimed): an entry, in memory or in the file, with timestamp T is
\* accepted by the read path at every t with t - T < 1800 and rejected at
\* every t with t - T > 1800.
TTLBoundaryAnyEntry == [][GetCall => TTLBoundary(FALSE)]_vars

\* C3 (amended): an entry with timestamp T and a non-empty bill list is
\* accepted at every t with t - T < 1800; every entry is rejected at every t
\* with t - T > 1800, and an entry with an empty list is never accepted.
TTLBoundaryNonEmpty == [][GetCall => TTLBoundary(TRUE)]_vars

\* C3 witness: the in-memory entry has been accepted at T + 1799
AcceptedAt1799 ==
    /\ last.op = "get" /\ last.source = "memory"
    /\ now - processed_bills_cache_time[1] = CACHE_DURATION - 1

\* the order of the read path; the file is taken to be valid by its
\* timestamp alone (nonEmpty = FALSE) or also needs a non-empty list
ReadPath(nonEmpty) ==
    LET memValid == /\ processed_bills_cache # None
                    /\ processed_bills_cache_time # None
                    /\ processed_bills_cache[1] # << >>
                    /\ now - processed_bills_cache_time[1] < CACHE_DURATION
        cache_data == FileData(cache_file)
        fileValid == /\ cache_data.ok
                     /\ now - cache_data.timestamp < CACHE_DURATION
                     /\ nonEmpty => cache_data.bills # << >>
    IN /\ memValid =>
            /\ last'.source = "memory" /\ last'.ret = processed_bills_cache[1]
            /\ last'.requests = 0 /\ ~last'.corrupt
            /\ UNCHANGED << cache_file, processed_bills_cache,
                            processed_bills_cache_time >>
       /\ (~memValid /\ fileValid) =>
            /\ last'.requests = 0
            /\ processed_bills_cache' = Some(cache_data.bills)
            /\ last'.ret = cache_data.bills
            /\ cache_file' = cache_file
       /\ (~memValid /\ ~fileValid) => last'.source = "miss"
       /\ last'.requests > 0 => (~memValid /\ ~fileValid)

\* C4 (as claimed): a valid in-memory entry is returned without reading the
\* file or calling the provider; otherwise a file whose timestamp is within
\* the TTL is promoted into memory and returned without calling the
\* provider; the provider is called only when both are invalid.
ReadPathByTimestamp == [][GetCall => ReadPath(FALSE)]_vars

\* C4 (amended): the same, the file being promoted when its timestamp is
\* within the TTL and its bill list is not empty.
ReadPathNonEmptyFile == [][GetCall => ReadPath(TRUE)]_vars

\* C4 witness: a list has been promoted from the file, with no request
PromotedFromFile ==
    /\ last.op = "get" /\ last.source = "file" /\ last.requests = 0
    /\ processed_bills_cache = Some(last.ret)

\* what a call with a limit leaves in memory and in the file; removal says
\* whether an unparsable file may have been removed
LimitedFrame(removal) ==
    /\ \/ UNCHANGED << processed_bills_cache, processed_bills_cache_time >>
       \/ /\ last'.source = "file"
          /\ processed_bills_cache' = Some(FileData(cache_file).bills)
       \/ /\ last'.source = "miss"
          /\ processed_bills_cache' = Some(FullNormal(api_bills_cache'[1]))
    /\ \/ cache_file' = cache_file
       \/ /\ Parses(cache_file')
          /\ FileData(cache_file').bills = FullNormal(api_bills_cache'[1])
       \/ removal /\ ~Parses(cache_file) /\ cache_file' = None

\* C5 (as claimed): after a call with a limit, the in-memory processed entry
\* and the file each hold what they held before or a full dataset.
LimitedCallWritesNothing ==
    [][(GetCall /\ last'.limit > 0) => LimitedFrame(FALSE)]_vars

\* C5 (amended): after a call with a limit, the in-memory processed entry
\* holds what it held before or the full dataset promoted from the file,
\* and the file holds what it held before, except that a file that did not
\* parse has been removed.
LimitedCallNeverTruncates ==
    [][(GetCall /\ last'.limit > 0) => LimitedFrame(TRUE)]_vars

\* C5 witness: a call with limit 1 has fetched two records and returned one
TruncatedReturned ==
    /\ last.op = "get" /\ last.limit = 1 /\ last.source = "miss"
    /\ Len(last.ret) = 1 /\ Len(api_bills_cache[1]) = 2

\* C6: a call with limit n > 0 makes a fresh outbound fetch and returns at
\* most n bills, in every cache state.
LimitedCallFetchesFresh ==
    (last.op = "get" /\ last.limit > 0)
        => (last.requests > 0 /\ Len(last.ret) <= last.limit)

\* C7: the list saved by save_cache_to_file is the list that
\* load_cache_from_file returns at any time less than 1800 s later, the
\* file not being written in between.
SaveLoadRoundTrip ==
    [][(GetCall /\ last'.write = "ok") =>
          \A d \in WithinTTL :
              load_cache_from_file(cache_file', now + d).ret = Some(last'.ret)]_vars

\* C7 witness: a list of two bills has been saved
TwoBillsSaved ==
    /\ last.op = "get" /\ last.write = "ok" /\ Len(last.ret) = 2
    /\ Parses(cache_file)

WriteFailure(always) ==
    /\ last'.source = "miss"
    /\ last'.ret = FullNormal(api_bills_cache'[1])
    /\ processed_bills_cache' = Some(last'.ret)
    /\ processed_bills_cache_time' = Some(now)
    /\ \A d \in WithinTTL :
          (always \/ last'.ret # << >>) <=>
              EntryValid(processed_bills_cache', processed_bills_cache_time', now + d)

\* C9 (as claimed): when the file write of a full miss fails, the call
\* returns the normalized list, memory holds it with a fresh timestamp, and
\* later calls within the TTL are served from memory.
WriteFailureServedFromMemory ==
    [][(GetCall /\ last'.write \in {"open_failed", "partial"})
          => WriteFailure(TRUE)]_vars

\* C9 (amended): the same, later calls within the TTL being served from
\* memory when the normalized list is not empty (an empty list is stored
\* but not served).
WriteFailureNonEmptyServed ==
    [][(GetCall /\ last'.write \in {"open_failed", "partial"})
          => WriteFailure(FALSE)]_vars

\* C9 witness: the write failed and memory holds the returned bills
WriteFailedMemoryHolds ==
    /\ last.op = "get" /\ last.write = "partial" /\ last.ret # << >>
    /\ processed_bills_cache = Some(last.ret)
    /\ ~Parses(cache_file)

\* after the step, a call made d seconds later would be a full miss that
\* issues requests
WouldFetchNext(d) ==
    /\ ~EntryValid(processed_bills_cache', processed_bills_cache_time', now + d)
    /\ ~ListTruthy(load_cache_from_file(cache_file', now + d).ret)
    /\ ~EntryValid(api_bills_cache', api_bills_cache_time', now + d)

\* a full miss whose fetch failed; removal says whether an unparsable file
\* may have been removed
FailedFetch(removal) ==
    /\ last'.ret = << >>
    /\ last'.requests \in {1, 2}
    /\ UNCHANGED << processed_bills_cache, processed_bills_cache_time >>
    /\ \/ cache_file' = cache_file
       \/ removal /\ ~Parses(cache_file) /\ last'.corrupt /\ cache_file' = None
    /\ \A d \in {0, 1, CACHE_DURATION - 1, CACHE_DURATION + 1} : WouldFetchNext(d)

\* C10 (as claimed): when the fetch of a full miss fails, the call returns
\* an empty list after one attempt per request, the in-memory processed
\* entry and the file are unchanged, and the next call issues the requests
\* again.
FailedFetchChangesNothing ==
    [][(GetCall /\ last'.source = "miss" /\ last'.failed)
          => FailedFetch(FALSE)]_vars

\* C10 (amended): the same, the file being unchanged except that a file
\* that did not parse has been removed by the load step.
FailedFetchWritesNothing ==
    [][(GetCall /\ last'.source = "miss" /\ last'.failed)
          => FailedFetch(TRUE)]_vars

\* C10 witness: both requests returned non-200 and nothing was returned
BothRequestsFailed ==
    /\ last.op = "get" /\ last.failed /\ last.requests = 2
    /\ api_bills_cache = Some(<< >>)

\* the step is the commit part of worker w's api_vote_bill
VoteCommitBy(w) ==
    req[w].op = "vote" /\ req[w].pc = "checked" /\ req'[w].pc = "done"

\* no (bill_id, user_id) pair has more than one row in the table
OneVotePerPair(table) ==
    \A b \in VotedBills, u \in Users : Len(RowsOfPair(table, b, u)) <= 1

\* C11: when accepted vote submissions are handled one after another, after
\* each of them the (bill_id, user) pair of the submission has exactly one
\* Vote row, with the submitted vote_type, and the rows of the other pairs
\* are as before.
LatestVoteStored ==
    [][\A w \in Workers : VoteCommitBy(w) =>
          /\ LET rows == RowsOfPair(votes', req[w].bill_id, req[w].user)
             IN Len(rows) = 1 /\ rows[1].vote_type = req[w].arg
          /\ \A b \in VotedBills, u \in Users :
                (b # req[w].bill_id \/ u # req[w].user)
                   => RowsOfPair(votes', b, u) = RowsOfPair(votes, b, u)]_vars

\* C11 witness: two accepted submissions for one pair have left one row
TwoVotesOneRow ==
    /\ Len(votes) = 1
    /\ \A w \in Workers : req[w].op = "vote" /\ req[w].status = 200

\* C12: in every interleaving of concurrent vote requests no pair ever has
\* more than one Vote row, and a request whose insert is refused by the
\* uniqueness constraint is answered with an error and leaves the table as
\* the other request wrote it.
VoteRaceKeepsOneRow ==
    [][/\ OneVotePerPair(votes')
       /\ \A w \in Workers :
             (/\ VoteCommitBy(w) /\ req[w].found = 0
              /\ RowsOfPair(votes, req[w].bill_id, req[w].user) # << >>)
                => /\ req'[w].status = 500 /\ req'[w].body = "error"
                   /\ votes' = votes]_vars

\* C12 witness: a request that lost the race has been answered with 500
RaceLoserRejected ==
    /\ Len(votes) = 1
    /\ \E w \in Workers : req[w].op = "vote" /\ req[w].status = 500

\* no (user_id, bill_id) pair has more than one row in the table
OneItemPerPair(table) ==
    \A b \in WatchedBills, u \in Users : Len(RowsOfPair(table, b, u)) <= 1

\* the step is the first part of an add request handled by worker w
AddStartBy(w) ==
    req[w].pc # "checked" /\ req'[w] # req[w] /\ req'[w].op = "add"

\* C13: an add for a (user, bill_id) pair that is already in the watchlist
\* is answered with a 4xx error body and leaves the table unchanged; no
\* pair ever has more than one WatchlistItem row, whatever adds and removes
\* are made.
DuplicateWatchRejected ==
    [][/\ OneItemPerPair(watchlist')
       /\ \A w \in Workers :
             (/\ AddStartBy(w)
              /\ RowsOfPair(watchlist, req'[w].bill_id, req'[w].user) # << >>)
                => /\ req'[w].pc = "done"
                   /\ req'[w].status \in 400..499 /\ req'[w].body = "error"
                   /\ watchlist' = watchlist]_vars

\* C13 witness: an add for a pair already in the watchlist has been refused
DuplicateAddRefused ==
    \E w \in Workers :
        /\ req[w].op = "add" /\ req[w].status = 400 /\ req[w].bill_id # ""
        /\ Len(RowsOfPair(watchlist, req[w].bill_id, req[w].user)) = 1

\* the topics of a user's rows
TopicsOfUser(table, uid) ==
    { RowsOfUser(table, uid)[i].topic : i \in 1..Len(RowsOfUser(table, uid)) }

\* the topics of a list
TopicsOfList(l) == { l[i] : i \in 1..Len(l) }

\* C14: a topic-alert request is all-or-nothing: answered with success, the
\* user's rows are exactly the topics of the request, one row each;
\* answered with an error, the user's rows are as before; the rows of the
\* other users are as before in both cases.
AlertsAllOrNothing ==
    [][\A w \in Workers :
          (req'[w] # req[w] /\ req'[w].op = "alerts") =>
             LET r == req'[w]
             IN /\ r.status = 200 =>
                      /\ TopicsOfUser(alerts', r.user) = TopicsOfList(r.arg.topics)
                      /\ Len(RowsOfUser(alerts', r.user)) = Len(r.arg.topics)
                /\ r.status # 200 =>
                      RowsOfUser(alerts', r.user) = RowsOfUser(alerts, r.user)
                /\ \A u \in Users \ {r.user} :
                      RowsOfUser(alerts', u) = RowsOfUser(alerts, u)]_vars

\* C14 witness: a request that repeats a topic has failed and the user's
\* previous row is still there
RepeatedTopicRolledBack ==
    \E w \in Workers :
        /\ req[w].op = "alerts" /\ req[w].status = 500
        /\ req[w].arg.k = "list" /\ Len(req[w].arg.topics) = 2
        /\ req[w].arg.topics[1] = req[w].arg.topics[2]
        /\ RowsOfUser(alerts, req[w].user) # << >>

\* a field is missing (no such key) or empty ('')
MissingOrEmpty(v) == v.k = "absent" \/ v = JStr(<< >>)

\* a JSON object in which type, number or originChamber is missing or empty
AnyFieldMissing(r) ==
    /\ r.isdict
    /\ \/ MissingOrEmpty(r.type) \/ MissingOrEmpty(r.number)
       \/ MissingOrEmpty(r.originChamber)

\* 'unknown-{congress}', congress being 118 when the key is missing
UnknownId(r) ==
    JStr(<<"u", "n", "k", "n", "o", "w", "n", "-">>
         \o (IF r.congress.k = "absent" THEN <<"1", "1", "8">>
             ELSE Digits(r.congress.n)))

\* a loop has been run on a list of the one record r, and has returned one
\* bill with the identifier unknown-{congress}
OneUnknownBill ==
    /\ Len(normalized.out) = 1
    /\ normalized.out[1].bill_id = UnknownId(raw_bills[1])

IdFromTypeNumberCongress ==
    (/\ normalized.by # "none" /\ normalized.limit = 0
     /\ Len(raw_bills) = 2
     /\ raw_bills[1].isdict /\ raw_bills[2].isdict
     /\ SameTypeNumberCongress(raw_bills[1], raw_bills[2]))
        => /\ Len(normalized.out) = 2
           /\ normalized.out[1].bill_id = normalized.out[2].bill_id
           /\ normalized.out[1].bill_id.s # << >>

\* the records of a list whose normalization does not raise, in order
NotRaising(raw, by) ==
    SelectSeq(raw, LAMBDA r : IF by = "full" THEN ~FullRaises(r)
                              ELSE ~LightweightRaises(r))

\* the normalized forms of a record that does not raise
NormalForms(r, by) ==
    IF by = "full"
    THEN { process_congress_bill(r, d)[1] : d \in DetailResponses }
    ELSE { process_congress_bill_lightweight(r)[1] }

\* out is, in order, the normalized form of the records of raw that do not
\* raise
SkipsOnlyFailing(raw, by, out) ==
    LET kept == NotRaising(raw, by)
    IN /\ Len(out) = Len(kept)
       /\ \A j \in 1..Len(kept) : out[j] \in NormalForms(kept[j], by)

\* the records a loop with the given limit gets to
Reached(raw, limit) ==
    IF limit = 0 \/ limit >= Len(raw) THEN raw ELSE SubSeq(raw, 1, limit)

\* C20 (as claimed): the list a normalization loop produces is, in input
\* order, the normalized form of exactly the records of the input whose
\* normalization did not raise.
BatchSkipsOnlyFailing ==
    normalized.by # "none"
        => SkipsOnlyFailing(raw_bills, normalized.by, normalized.out)

\* C20 (amended): the same of the records the loop gets to: all of them,
\* or the first n when get_processed_bills_cached is given the limit n.
BatchSkipsOnlyFailingReached ==
    normalized.by # "none"
        => SkipsOnlyFailing(Reached(raw_bills, normalized.limit),
                            normalized.by, normalized.out)

\* C20 witness: of a malformed record followed by a Senate bill, the loop
\* has returned the Senate bill alone
MalformedSkipped ==
    /\ raw_bills = << RawBad, RawS2 >>
    /\ normalized.by = "lightweight" /\ normalized.limit = 0
    /\ Len(normalized.out) = 1
    /\ normalized.out[1].bill_id = JStr(<<"s", "2", "-", "1", "1", "8">>)

\* the elements of a list
Elements(l) == { l[i] : i \in 1..Len(l) }

\* positions in TOPIC_KEYWORDS of the topics with a keyword in the text
Matched(text) ==
    { i \in 1..Len(TOPIC_KEYWORDS) :
        \E j \in 1..Len(TOPIC_KEYWORDS[i].keywords) :
            Contains(text, TOPIC_KEYWORDS[i].keywords[j]) }

\* position in TOPIC_KEYWORDS of a keyword topic, 0 for another tag
TopicIndex(t) ==
    IF \E i \in 1..Len(TOPIC_KEYWORDS) : TOPIC_KEYWORDS[i].topic = t
    THEN CHOOSE i \in 1..Len(TOPIC_KEYWORDS) : TOPIC_KEYWORDS[i].topic = t
    ELSE 0

CatchAllTags == {"general_legislation", "legislative_reform"}

\* C17: categorize_bill returns an empty list whenever the text built from
\* title and summary has fewer than 10 characters, whatever it contains.
ShortTextNoTopics ==
    (topics # None /\ Len(TextOf(bill)) < 10) => topics[1] = << >>

\* C17 witness: the title 'Tax' (a keyword of economy) with an empty
\* summary has been given no topic
ShortKeywordUntagged ==
    /\ bill.title = JStr(<<"T", "a", "x">>) /\ bill.summary = JStr(<< >>)
    /\ topics = Some(<< >>)

\* the keyword topics of the result are those with a keyword in the text,
\* once each, in dictionary order
KeywordTopicsExact(text, result) ==
    /\ \A i \in 1..Len(TOPIC_KEYWORDS) :
          TOPIC_KEYWORDS[i].topic \in Elements(result) <=> i \in Matched(text)
    /\ \A p, q \in 1..Len(result) :
          p < q => /\ result[p] # result[q]
                   /\ TopicIndex(result[p]) < TopicIndex(result[q])

\* the example of the claim: 'Climate Change Mitigation Act', no summary
ClimateExample ==
    /\ bill.title = JStr(<<"C", "l", "i", "m", "a", "t", "e", " ", "C", "h", "a", "n", "g", "e", " ", "M", "i", "t", "i", "g", "a", "t", "i", "o", "n", " ", "A", "c", "t">>)
    /\ bill.summary = JStr(<< >>)

\* C18 (as claimed): for text of at least 10 characters the keyword topics
\* of the result are exactly the topics with a keyword in the text, once
\* each and in dictionary order; the example's result has 'environment'.
KeywordTopicsOfLongText ==
    topics # None =>
       /\ Len(TextOf(bill)) >= 10 => KeywordTopicsExact(TextOf(bill), topics[1])
       /\ ClimateExample => "environment" \in Elements(topics[1])

\* C18 (amended): the same for text that has at least 10 characters after
\* leading and trailing whitespace is stripped.
KeywordTopicsOfLongStrippedText ==
    topics # None =>
       /\ Len(Strip(TextOf(bill))) >= 10
             => KeywordTopicsExact(TextOf(bill), topics[1])
       /\ ClimateExample => "environment" \in Elements(topics[1])

\* C18 witness: the example has been classified, 'environment' included
ClimateTagged == ClimateExample /\ topics # None /\ "environment" \in Elements(topics[1])

\* a catch-all tag comes with no keyword topic, and the two never together
CatchAllExclusive(result) ==
    /\ (Elements(result) \cap CatchAllTags # {}) => Len(result) = 1

\* the result when no keyword topic matched
FallbackResult(text) ==
    IF \E j \in 1..Len(GeneralWords) : Contains(text, GeneralWords[j])
    THEN << "general_legislation" >>
    ELSE IF \E j \in 1..Len(ReformWords) : Contains(text, ReformWords[j])
         THEN << "legislative_reform" >>
         ELSE << >>

\* C19 (as claimed): a catch-all tag is in the result only with no keyword
\* topic, the two catch-all tags are never together, and when no keyword
\* topic matched the result is 'general_legislation' if the text has one
\* of act / law / bill / legislation, else 'legislative_reform' if it has
\* one of amendment / modify / change / update, else empty.
CatchAllWhenNoKeyword ==
    topics # None =>
       /\ CatchAllExclusive(topics[1])
       /\ Matched(TextOf(bill)) = {} => topics[1] = FallbackResult(TextOf(bill))

\* C19 (amended): the same, the catch-all tag being assigned when the text
\* has at least 10 characters after stripping; a shorter text gets none.
CatchAllWhenNoKeywordLongText ==
    topics # None =>
       /\ CatchAllExclusive(topics[1])
       /\ (Matched(TextOf(bill)) = {} /\ Len(Strip(TextOf(bill))) >= 10)
             => topics[1] = FallbackResult(TextOf(bill))
       /\ Len(Strip(TextOf(bill))) < 10 => topics[1] = << >>

\* C19 witness: a title with 'modify' and 'change' and no keyword has been
\* tagged legislative_reform
ReformTagged ==
    /\ bill.title = JStr(<<"M", "o", "d", "i", "f", "y", " ", "C", "h", "a", "n", "g", "e">>)
    /\ bill.summary = JStr(<< >>)
    /\ topics = Some(<< "legislative_reform" >>)

\* C21: with chamber 'both' and no valid raw cache, fetch_bills_from_api
\* issues exactly two requests, the first for the House and the second for
\* the Senate, and returns the bills of the first response followed by the
\* bills of the second; a non-200 response contributes no bills.
BothFetchOnePerChamber ==
    (fetched.chamber = "both" /\ ~fetched.valid) =>
       /\ Len(fetched.sent) = 2
       /\ fetched.sent[1].chamber = Some("house")
       /\ fetched.sent[2].chamber = Some("senate")
       /\ Len(fetched.responses) = 2
       /\ fetched.ret = BillsOf(fetched.responses[1]) \o BillsOf(fetched.responses[2])

\* what the code does keep of it: when neither request raises, two requests
\* are made and the list returned is the bills of the first 200 response
\* followed by those of the second; the two requests carry no chamber
BothFetchConcatenates ==
    (fetched.chamber = "both" /\ ~fetched.valid) =>
       /\ Len(fetched.sent) = Len(fetched.responses)
       /\ last.op = "api_fetch" => last.requests = Len(fetched.sent)
       /\ \A i \in 1..Len(fetched.sent) : fetched.sent[i] = BothParams
       /\ (\A i \in 1..Len(fetched.responses) : fetched.responses[i].status # "raise")
             => /\ Len(fetched.sent) = 2
                /\ fetched.ret = BillsOf(fetched.responses[1])
                                    \o BillsOf(fetched.responses[2])

\* the sponsor names a detail response can carry
DetailSponsors == { d.sponsor[1] : d \in { r \in DetailResponses : r.sponsor # None } }

\* C22: the lightweight path sets the sponsor to a fixed placeholder, and
\* the detailed path sets it to a name from the detail response or, when
\* the request fails or returns no sponsor, to that same placeholder.
SponsorPlaceholderShared ==
    \A i \in 1..Len(normalized.out) :
       LET sponsor == normalized.out[i].sponsor
       IN /\ normalized.by = "lightweight" => sponsor = JStr(SponsorPlaceholder)
          /\ normalized.by = "full" =>
                \/ sponsor = JStr(SponsorPlaceholder)
                \/ sponsor.s \in DetailSponsors

\* what the code does: each path has its own placeholder
SponsorPlaceholderPerPath ==
    \A i \in 1..Len(normalized.out) :
       LET sponsor == normalized.out[i].sponsor
       IN /\ normalized.by = "lightweight" => sponsor = JStr(SponsorPlaceholder)
          /\ normalized.by = "full" =>
                \/ sponsor = JStr(FullSponsorDefault)
                \/ sponsor.s \in DetailSponsors

\* both calls have returned, each after missing memory and file and
\* getting a non-empty list from fetch_bills_from_api (so each stored its
\* list in memory and wrote the file)
BothMissedAndStored ==
    \A w \in Workers :
       /\ calls[w].pc = "done" /\ calls[w].source = "miss"
       /\ calls[w].api_bills # << >>

\* the file holds, whole, the list of the call of worker w
FileHoldsResultOf(w) ==
    /\ cache_file # None
    /\ JsonLoad(cache_file[1]).ok
    /\ JsonLoad(cache_file[1]).bills = calls[w].processed_bills
    /\ JsonLoad(cache_file[1]).timestamp = calls[w].ts

\* C23: in every interleaving of two calls that both start on an empty or
\* expired cache, after both have finished the in-memory list, the
\* in-memory timestamp and the file each hold the complete result of one of
\* the two calls, and when both calls fetched the same data the cache is
\* as after a single call.
ConcurrentMissesOverwriteWhole ==
    BothMissedAndStored =>
       /\ \E w \in Workers : processed_bills_cache = Some(calls[w].processed_bills)
       /\ processed_bills_cache_time = Some(now)
       /\ \E w \in Workers : FileHoldsResultOf(w)
       /\ calls[1].api_bills = calls[2].api_bills =>
             /\ processed_bills_cache = Some(calls[1].processed_bills)
             /\ cache_file = Some(JsonDump(now, calls[1].processed_bills))

\* what the code keeps of it: the two in-memory variables each hold the
\* value one of the calls gave them
ConcurrentMissesMemoryWhole ==
    BothMissedAndStored =>
       /\ \E w \in Workers : processed_bills_cache = Some(calls[w].processed_bills)
       /\ processed_bills_cache_time = Some(now)

\* both calls made their own requests
BothFetched ==
    BothMissedAndStored /\ \A w \in Workers : calls[w].requests = 2

\* and, when both calls fetched the same data, the cache is as after a
\* single call
ConcurrentSameDataAsOne ==
    (BothMissedAndStored /\ calls[1].api_bills = calls[2].api_bills) =>
       /\ processed_bills_cache = Some(calls[1].processed_bills)
       /\ cache_file = Some(JsonDump(now, calls[1].processed_bills))

\* C24: a call that misses both the in-memory entry and the file makes its
\* outbound requests during the call, and the list it then writes to
\* memory and to the file was fetched during that call.
FullMissFetchesDuringCall ==
    (last.op = "get" /\ last.source = "miss") =>
       /\ last.requests > 0
       /\ (last.limit = 0 /\ last.write # "none") =>
             /\ processed_bills_cache_time = Some(now)
             /\ processed_fetched_at = now

\* what the code does: the list written by a full miss was fetched during
\* the call or is the content of a raw cache entry younger than the TTL
FullMissFetchesOrReusesRaw ==
    (last.op = "get" /\ last.source = "miss") =>
       /\ last.requests = 0 =>
             EntryValid(api_bills_cache, api_bills_cache_time, now)
       /\ (last.limit = 0 /\ last.write # "none") =>
             /\ processed_bills_cache_time = Some(now)
             /\ \/ last.requests > 0 /\ processed_fetched_at = now
                \/ last.requests = 0 /\ processed_fetched_at = api_bills_cache_time[1]

\* a full miss has cached, with a fresh timestamp and without a request,
\* two bills that an earlier call had left in the raw cache
FullMissReusedRaw ==
    /\ last.op = "get" /\ last.source = "miss" /\ last.limit = 0
    /\ last.requests = 0 /\ Len(last.ret) = 2
    /\ processed_bills_cache_time = Some(now) /\ processed_fetched_at < now

\* the in-memory processed entry passes the test of the read path
MemoryValid ==
    EntryValid(processed_bills_cache, processed_bills_cache_time, now)

\* the file passes the tests of the read path: it parses, its timestamp is
\* within the TTL and its bill list is accepted by "if file_cache"
FileValid ==
    LET cache_data == FileData(cache_file)
    IN cache_data.ok /\ Fresh(cache_data.timestamp, now) /\ cache_data.bills # << >>

\* the file parses and its timestamp is within the TTL
FileFresh ==
    LET cache_data == FileData(cache_file)
    IN cache_data.ok /\ Fresh(cache_data.timestamp, now)

MemoryAndFreshFileAgree ==
    [](MemoryValid /\ FileFresh
         => processed_bills_cache[1] = FileData(cache_file).bills)

\* a call has been served from a valid in-memory entry while the file held
\* something else (here: no longer a document that parses)
ServedFromMemoryDespiteFile ==
    /\ last.op = "get" /\ last.source = "memory" /\ MemoryValid
    /\ cache_file # None /\ ~FileValid
    /\ last.ret = processed_bills_cache[1]

ValidCacheNoListRequest ==
    (home.called /\ home.memory_valid) => home.list_requests = 0

\* what the code does: the bills come from the cache without a request,
\* and the statistics cost one to three requests every time
ValidCacheStatsRequestsOnly ==
    /\ (last.op = "get" /\ home.called /\ home.memory_valid) => last.requests = 0
    /\ (home.called /\ home.memory_valid) => home.list_requests \in 1..3

\* the least k with k * per_page >= n
Ceil(n, per_page) == CHOOSE k \in 0..n : k * per_page >= n /\ \A j \in 0..(k - 1) : j * per_page < n

RECURSIVE PagesConcatenated(_, _, _, _)
\* the pages p..total_pages of the list, one after the other
PagesConcatenated(filtered_bills, per_page, p, total_pages) ==
    IF p > total_pages THEN << >>
    ELSE Paginate(filtered_bills, p, per_page).bills_for_page
         \o PagesConcatenated(filtered_bills, per_page, p + 1, total_pages)

\* C30: for every filtered list of n bills, every requested per_page and
\* page: per_page is the requested value if it is 10, 20 or 50 and else 10,
\* total_pages = max(1, ceil(n / per_page)), the page is within
\* 1..total_pages, the page shown has at most per_page bills, and the pages
\* 1..total_pages one after the other are the filtered list.
PaginationCoversList ==
    paged.out # NoPage =>
       LET n == Len(paged.filtered_bills)
           out == paged.out
       IN /\ out.per_page = IF paged.per_page \in {10, 20, 50} THEN paged.per_page ELSE 10
          /\ out.total_pages = Max(1, Ceil(n, out.per_page))
          /\ out.page \in 1..out.total_pages
          /\ paged.page \in 1..out.total_pages => out.page = paged.page
          /\ Len(out.bills_for_page) <= out.per_page
          /\ PagesConcatenated(paged.filtered_bills, paged.per_page, 1,
                               out.total_pages) = paged.filtered_bills

\* C30 witness: the last of three pages of 50 has been shown, one bill on it
LastPageShown ==
    /\ Len(paged.filtered_bills) = 101 /\ paged.out.per_page = 50
    /\ paged.out.total_pages = 3 /\ paged.out.page = 3 /\ paged.page > 3
    /\ paged.out.bills_for_page = << 101 >>

\* the identifiers of a list of bills
BillIds(bills) == [i \in 1..Len(bills) |-> bills[i].bill_id]

\* what the lightweight normalizer assigns to the record: identifier and topics
LightweightAssigns(congress_bill) ==
    [ids |-> BillIds(process_congress_bill_lightweight(congress_bill)),
     topics |-> IF LightweightRaises(congress_bill) THEN None
                ELSE Some(LightweightTopics(congress_bill))]

\* what the full normalizer assigns to the record
FullAssigns(congress_bill) ==
    [ids |-> BillIds(process_congress_bill(congress_bill, [status |-> "200", sponsor |-> None])),
     topics |-> IF FullRaises(congress_bill) THEN None
                ELSE Some(FullTopics(congress_bill))]

\* C27: whichever normalizer has processed the record, the bill identifier
\* and the list of topics it assigned are those the other normalizer
\* assigns to the same record
PathsAssignSameTopicsAndId ==
    /\ normalized.by = "full" =>
          [ids |-> BillIds(normalized.out), topics |-> topics] = LightweightAssigns(raw_bills[1])
    /\ normalized.by = "lightweight" =>
          [ids |-> BillIds(normalized.out), topics |-> topics] = FullAssigns(raw_bills[1])

\* the identifier alone is the same on both paths
PathsAssignSameId ==
    normalized.by # "none" =>
       /\ BillIds(normalized.out) = LightweightAssigns(raw_bills[1]).ids
       /\ BillIds(normalized.out) = FullAssigns(raw_bills[1]).ids

\* the full normalizer tags every record it returns with 'technology':
\* the keyword 'ai' is in its summary text
FullAlwaysTechnology ==
    (normalized.by = "full" /\ topics # None) =>
        \E i \in 1..Len(topics[1]) : topics[1][i] = "technology"

\* a record the lightweight normalizer leaves without topics
LightweightUntagged ==
    /\ normalized.by = "lightweight" /\ topics = Some(<< >>)
    /\ FullTopics(raw_bills[1]) = << "technology" >>

\* the step is a get_processed_bills_cached call whose own 'both' fetch had
\* exactly one request answered non-200: the successful request's bills
\* alone are the raw cache entry and, without limit, their normalized form
\* is the in-memory processed entry, the returned list and (when the write
\* does not fail) the file, all stamped with the time of the call
PartialStoredStep ==
    (last'.op = "get" /\ last'.source = "miss" /\ last'.partial # None) =>
       \E processed \in { ProcessLoop(last'.partial[1], 0, 0, << >>) } :
          /\ api_bills_cache' = last'.partial
          /\ api_bills_cache_time' = Some(now)
          /\ last'.requests = 2
          /\ last'.limit = 0 =>
                /\ processed_bills_cache' = Some(processed)
                /\ processed_bills_cache_time' = Some(now)
                /\ partial_stored' = last'.partial
                /\ last'.ret = processed
                /\ last'.write = "ok" => cache_file' = Some(JsonDump(now, processed))

\* the step is a get_processed_bills_cached call made while the list stored
\* from a partial fetch is in memory and less than CACHE_DURATION old: no
\* request is made, the raw entry stays, a call without limit returns the
\* normalized bills of the successful request
PartialServedStep ==
    (/\ partial_stored # None
     /\ last'.op = "get"
     /\ now - processed_bills_cache_time[1] < CACHE_DURATION) =>
       /\ last'.requests = 0
       /\ api_bills_cache' = api_bills_cache
       /\ last'.limit = 0 =>
             last'.ret = ProcessLoop(partial_stored[1], 0, 0, << >>)

\* C28: a 'both' fetch with exactly one request answered non-200 is stored
\* as it is (raw cache, and for a call without limit the in-memory
\* processed cache and the file), and every call made before the TTL of
\* that entry expires is answered from it without a request
PartialFetchStoredAndServed == [][PartialStoredStep /\ PartialServedStep]_vars

\* a later call, after the clock has advanced, returns the one bill of a
\* partial fetch from memory
PartialServedFromMemory ==
    /\ partial_stored # None /\ Len(partial_stored[1]) = 1
    /\ last.op = "get" /\ last.limit = 0 /\ last.source = "memory"
    /\ last.requests = 0 /\ Len(last.ret) = 1
    /\ last.ret = processed_bills_cache[1]
    /\ now > processed_bills_cache_time[1]
    /\ cache_file = Some(JsonDump(processed_bills_cache_time[1], last.ret))

\* a partial fetch has just been stored by a call without limit
PartialJustStored ==
    /\ last.op = "get" /\ last.source = "miss" /\ last.limit = 0
    /\ last.partial # None /\ partial_stored = last.partial
    /\ last.write = "ok"

\* the step is a clear_bills_cache call: the four in-memory variables are
\* None afterwards, the file and the clock are as they were
ClearStep ==
    last'.op = "clear" =>
       /\ api_bills_cache' = None /\ api_bills_cache_time' = None
       /\ processed_bills_cache' = None /\ processed_bills_cache_time' = None
       /\ cache_file' = cache_file
       /\ now' = now

\* the outcome of a get_processed_bills_cached step answered from the file
ServedFromFile ==
    /\ last'.source = "file"
    /\ last'.requests = 0
    /\ last'.ret = FileData(cache_file).bills
    /\ cache_file' = cache_file

\* C29 as stated: clear_bills_cache sets the four in-memory variables to
\* None and leaves the file; a get_processed_bills_cached call made right
\* after it, while the file's timestamp is within the TTL, returns the
\* file's list and makes no request
ClearThenGetServesFile ==
    [][/\ ClearStep
       /\ (last.op = "clear" /\ last'.op = "get" /\ FileFresh) => ServedFromFile]_vars

\* C29, amended: the same with a file whose timestamp is within the TTL and
\* whose bill list is not empty
ClearThenGetServesNonEmptyFile ==
    [][/\ ClearStep
       /\ (last.op = "clear" /\ last'.op = "get" /\ FileValid) => ServedFromFile]_vars

\* the cache has just been cleared, after the clock advanced, and the file
\* left in place is valid
ClearedWithValidFile ==
    /\ last.op = "clear" /\ ticks >= 1
    /\ api_bills_cache = None /\ api_bills_cache_time = None
    /\ processed_bills_cache = None /\ processed_bills_cache_time = None
    /\ FileValid

\* the cache has just been cleared and the file left in place holds an
\* empty list with a timestamp within the TTL
ClearedWithEmptyFile ==
    /\ last.op = "clear" /\ FileFresh /\ ~FileValid

====
